---------------------------- MODULE Spec2Model ----------------------------
(***************************************************************************)
(* A model of the bsv-wasm core: the opcode table, the ScriptBit codec,    *)
(* the CompactSize codec, the ECDSA k-recovery relation and the BIP32      *)
(* extended private key.  Every operation is a pure function of its        *)
(* inputs, so each specification draws the inputs in its initial states    *)
(* and its actions apply the operations and record what they return.       *)
(***************************************************************************)
EXTENDS Naturals, Integers, Sequences, FiniteSets, TLC

VARIABLES
    pc,         \* position of the caller in the scenario being run
    from_value, \* op_codes.rs: the number handed to OpCodes::from
    opcode,     \* op_codes.rs: the OpCodes variant OpCodes::from returned
    into_value, \* op_codes.rs: the number u8::from(opcode) returned
    script,     \* script_bit.rs: the ScriptBit sequence being encoded
    encoded,    \* script_bit.rs: the concatenated to_vec of the sequence
    rest,       \* script_bit.rs: the part of encoded not yet decoded
    decoded,    \* script_bit.rs: the nodes from_bytes returned so far
    input_varint, \* varint.rs: the u64 being encoded
    cursor,     \* varint.rs: the Cursor<Vec<u8>> written to and read from
    cursor_read,  \* varint.rs: what read_varint on the cursor returned
    vec_buf,    \* varint.rs: the Vec<u8> written to
    varint_bytes, \* varint.rs: what VarInt::get_varint_bytes returned
    util_bytes, \* varint.rs: what VarIntUtil::get_bytes returned
    ec_private_key,   \* signature.rs: the private key d that signs
    ec_ephemeral_key, \* signature.rs: the ephemeral key k
    ec_message,       \* signature.rs: the message
    ec_hash_algo,     \* signature.rs: the SigningHash
    ec_signature,     \* signature.rs: what ECDSA::sign_with_k returned
    ec_recovered,     \* signature.rs: what private_key_from_signature_k returned
    x_node,     \* extended_private_key.rs: the ExtendedPrivateKey at hand
    x_index,    \* extended_private_key.rs: the index handed to derive_impl
    x_child,    \* extended_private_key.rs: what derive_impl returned
    x_key_data, \* extended_private_key.rs: derive_impl's HMAC message key_data
    x_string,   \* extended_private_key.rs: what to_string_impl returned
    x_bytes,    \* extended_private_key.rs: the bytes to_string_impl encoded
    x_input,    \* extended_private_key.rs: the string handed to from_string_impl
    x_parsed,   \* extended_private_key.rs: what from_string_impl returned
    x_source,   \* extended_private_key.rs: what getrandom did in from_random_impl
    x_random,   \* extended_private_key.rs: what from_random_impl returned
    x_path,     \* extended_private_key.rs: the path handed to derive_from_path
    x_path_result, \* extended_private_key.rs: what derive_from_path returned
    pushdata_opcode, \* varint.rs: what VarInt::get_pushdata_opcode returned
    dec_input,  \* script_bit.rs: the bytes handed to ScriptBit::from_bytes
    dec_result, \* script_bit.rs: what ScriptBit::from_bytes returned
    vu_input,   \* varint.rs: the bytes VarIntUtil::read_var_int reads
    vu_result,  \* varint.rs: what VarIntUtil::read_var_int did
    dv_input,   \* varint.rs: the number handed to decompress_value
    dv_output,  \* varint.rs: what decompress_value returned
    vf_public_key, \* verify.rs: pub_key
    vf_message,    \* verify.rs: message
    vf_hash_algo,  \* verify.rs: hash_algo
    vf_signature,  \* verify.rs: signature
    vf_reverse_k,  \* verify.rs: reverse_k
    vf_result,     \* verify.rs: what verify_digest returned
    vf_calls,      \* verify.rs: the calls verify_digest_impl made, in order
    vec_read,      \* varint.rs: what read_varint on the Vec<u8> returned
    asm_extended,  \* script_bit.rs: the `extended` argument of to_asm_string_impl
    asm_rendered,  \* script_bit.rs: what to_asm_string_impl returned for each bit
    par_node,      \* tests/signature.rs: the node the threads derive from (&self)
    par_tasks,     \* the call each thread makes, with its arguments
    par_at,        \* where each thread stands in its call
    par_local,     \* each thread's locals (key_data, signature)
    par_result,    \* what each thread's call returned
    raw_input,     \* the external bytes handed to a decoding operation
    raw_op,        \* the decoding operation they were handed to
    raw_result,    \* what it did
    pd_node,       \* script_bit.rs: a ScriptBit::PushData
    pd_encoded     \* script_bit.rs: its to_vec()

vars == <<pc, from_value, opcode, into_value, script, encoded, rest, decoded,
          input_varint, cursor, cursor_read, vec_buf, varint_bytes, util_bytes,
          ec_private_key, ec_ephemeral_key, ec_message, ec_hash_algo, ec_signature,
          ec_recovered, x_node, x_index, x_child, x_key_data, x_string, x_bytes, x_input, x_parsed,
          x_source, x_random, x_path, x_path_result, pushdata_opcode,
          dec_input, dec_result, vu_input, vu_result, dv_input, dv_output,
          vf_public_key, vf_message, vf_hash_algo, vf_signature, vf_reverse_k, vf_result, vf_calls,
          vec_read, asm_extended, asm_rendered, par_node, par_tasks, par_at, par_local,
          par_result, raw_input, raw_op, raw_result, pd_node, pd_encoded>>

opVars     == <<from_value, opcode, into_value>>
scriptVars == <<script, encoded, rest, decoded, asm_extended, asm_rendered>>
varintVars == <<input_varint, cursor, cursor_read, vec_buf, varint_bytes, util_bytes,
                pushdata_opcode, vec_read>>
ecdsaVars  == <<ec_private_key, ec_ephemeral_key, ec_message, ec_hash_algo, ec_signature,
                ec_recovered>>
xprivVars  == <<x_node, x_index, x_child, x_key_data, x_string, x_bytes, x_input, x_parsed>>
constructVars == <<x_source, x_random, x_path, x_path_result>>
decodeVars == <<dec_input, dec_result>>
readVarIntVars == <<vu_input, vu_result>>
decompressVars == <<dv_input, dv_output>>
verifyVars == <<vf_public_key, vf_message, vf_hash_algo, vf_signature, vf_reverse_k, vf_result, vf_calls>>
parVars == <<par_node, par_tasks, par_at, par_local, par_result>>
rawVars == <<raw_input, raw_op, raw_result>>
pushDataVars == <<pd_node, pd_encoded>>

-----------------------------------------------------------------------------
(* Rust's Option and Result.  None is the empty sequence and Some(v) the   *)
(* one-element sequence, so that the two always compare.                   *)

None == <<>>
Some(v) == <<v>>
IsSome(o) == Len(o) = 1
Unwrap(o) == o[1]

Ok(v) == [ok |-> TRUE, v |-> v]
Err(e) == [ok |-> FALSE, err |-> e]

Min(a, b) == IF a <= b THEN a ELSE b

RECURSIVE Pow(_, _)
Pow(b, e) == IF e = 0 THEN 1 ELSE b * Pow(b, e - 1)

(* n.to_le_bytes() after a cast of n to the unsigned type of `width` bytes: *)
(* the low `width` bytes of n, least significant first.                     *)
ToLeBytes(n, width) == [i \in 1..width |-> (n \div Pow(256, i - 1)) % 256]

RECURSIVE FromLeBytes(_)
FromLeBytes(bs) ==
    IF bs = <<>> THEN 0 ELSE bs[1] + 256 * FromLeBytes(Tail(bs))

Zeros(n) == [i \in 1..n |-> 0]

(* All sequences over S of length lo..hi. *)
SeqsOf(S, lo, hi) == UNION {[1..n -> S] : n \in lo..hi}

-----------------------------------------------------------------------------
(* script/op_codes.rs *)

OpCodes ==
    [ OP_0 |-> 0,
      OP_PUSHDATA1 |-> 76,
      OP_PUSHDATA2 |-> 77,
      OP_PUSHDATA4 |-> 78,
      OP_1NEGATE |-> 79,
      OP_1 |-> 81,
      OP_2 |-> 82,
      OP_3 |-> 83,
      OP_4 |-> 84,
      OP_5 |-> 85,
      OP_6 |-> 86,
      OP_7 |-> 87,
      OP_8 |-> 88,
      OP_9 |-> 89,
      OP_10 |-> 90,
      OP_11 |-> 91,
      OP_12 |-> 92,
      OP_13 |-> 93,
      OP_14 |-> 94,
      OP_15 |-> 95,
      OP_16 |-> 96,
      OP_NOP |-> 97,
      OP_IF |-> 99,
      OP_NOTIF |-> 100,
      OP_ELSE |-> 103,
      OP_ENDIF |-> 104,
      OP_VERIFY |-> 105,
      OP_RETURN |-> 106,
      OP_TOALTSTACK |-> 107,
      OP_FROMALTSTACK |-> 108,
      OP_IFDUP |-> 115,
      OP_DEPTH |-> 116,
      OP_DROP |-> 117,
      OP_DUP |-> 118,
      OP_NIP |-> 119,
      OP_OVER |-> 120,
      OP_PICK |-> 121,
      OP_ROLL |-> 122,
      OP_ROT |-> 123,
      OP_SWAP |-> 124,
      OP_TUCK |-> 125,
      OP_2DROP |-> 109,
      OP_2DUP |-> 110,
      OP_3DUP |-> 111,
      OP_2OVER |-> 112,
      OP_2ROT |-> 113,
      OP_2SWAP |-> 114,
      OP_CAT |-> 126,
      OP_SPLIT |-> 127,
      OP_SIZE |-> 130,
      OP_INVERT |-> 131,
      OP_AND |-> 132,
      OP_OR |-> 133,
      OP_XOR |-> 134,
      OP_EQUAL |-> 135,
      OP_EQUALVERIFY |-> 136,
      OP_1ADD |-> 139,
      OP_1SUB |-> 140,
      OP_NEGATE |-> 143,
      OP_ABS |-> 144,
      OP_NOT |-> 145,
      OP_0NOTEQUAL |-> 146,
      OP_ADD |-> 147,
      OP_SUB |-> 148,
      OP_MUL |-> 149,
      OP_DIV |-> 150,
      OP_MOD |-> 151,
      OP_LSHIFT |-> 152,
      OP_RSHIFT |-> 153,
      OP_BOOLAND |-> 154,
      OP_BOOLOR |-> 155,
      OP_NUMEQUAL |-> 156,
      OP_NUMEQUALVERIFY |-> 157,
      OP_NUMNOTEQUAL |-> 158,
      OP_LESSTHAN |-> 159,
      OP_GREATERTHAN |-> 160,
      OP_LESSTHANOREQUAL |-> 161,
      OP_GREATERTHANOREQUAL |-> 162,
      OP_MIN |-> 163,
      OP_MAX |-> 164,
      OP_WITHIN |-> 165,
      OP_NUM2BIN |-> 128,
      OP_BIN2NUM |-> 129,
      OP_RIPEMD160 |-> 166,
      OP_SHA1 |-> 167,
      OP_SHA256 |-> 168,
      OP_HASH160 |-> 169,
      OP_HASH256 |-> 170,
      OP_CODESEPARATOR |-> 171,
      OP_CHECKSIG |-> 172,
      OP_CHECKSIGVERIFY |-> 173,
      OP_CHECKMULTISIG |-> 174,
      OP_CHECKMULTISIGVERIFY |-> 175,
      OP_CHECKLOCKTIMEVERIFY |-> 177,
      OP_CHECKSEQUENCEVERIFY |-> 178,
      OP_DATA |-> 251,
      OP_SIG |-> 252,
      OP_PUBKEYHASH |-> 253,
      OP_PUBKEY |-> 254,
      OP_INVALIDOPCODE |-> 255,
      OP_RESERVED |-> 80,
      OP_VER |-> 98,
      OP_VERIF |-> 101,
      OP_VERNOTIF |-> 102,
      OP_RESERVED1 |-> 137,
      OP_RESERVED2 |-> 138,
      OP_NOP1 |-> 176,
      OP_NOP4 |-> 179,
      OP_NOP5 |-> 180,
      OP_NOP6 |-> 181,
      OP_NOP7 |-> 182,
      OP_NOP8 |-> 183,
      OP_NOP9 |-> 184,
      OP_NOP10 |-> 185,
      OP_INVALID_ABOVE |-> 186,
      OP_2MUL |-> 141,
      OP_2DIV |-> 142 ]

OpCodeNames == DOMAIN OpCodes

(* `code as u8`, u8::from(code) *)
AsU8(code) == OpCodes[code]

(* impl From<$type> for OpCodes, for $type in u8, u16, u32, u64 *)
From(value) ==
    CASE value = 0 -> "OP_0"
      [] value = 76 -> "OP_PUSHDATA1"
      [] value = 77 -> "OP_PUSHDATA2"
      [] value = 78 -> "OP_PUSHDATA4"
      [] value = 79 -> "OP_1NEGATE"
      [] value = 81 -> "OP_1"
      [] value = 82 -> "OP_2"
      [] value = 83 -> "OP_3"
      [] value = 84 -> "OP_4"
      [] value = 85 -> "OP_5"
      [] value = 86 -> "OP_6"
      [] value = 87 -> "OP_7"
      [] value = 88 -> "OP_8"
      [] value = 89 -> "OP_9"
      [] value = 90 -> "OP_10"
      [] value = 91 -> "OP_11"
      [] value = 92 -> "OP_12"
      [] value = 93 -> "OP_13"
      [] value = 94 -> "OP_14"
      [] value = 95 -> "OP_15"
      [] value = 96 -> "OP_16"
      [] value = 97 -> "OP_NOP"
      [] value = 99 -> "OP_IF"
      [] value = 100 -> "OP_NOTIF"
      [] value = 103 -> "OP_ELSE"
      [] value = 104 -> "OP_ENDIF"
      [] value = 105 -> "OP_VERIFY"
      [] value = 106 -> "OP_RETURN"
      [] value = 107 -> "OP_TOALTSTACK"
      [] value = 108 -> "OP_FROMALTSTACK"
      [] value = 109 -> "OP_2DROP"
      [] value = 110 -> "OP_2DUP"
      [] value = 111 -> "OP_3DUP"
      [] value = 112 -> "OP_2OVER"
      [] value = 113 -> "OP_2ROT"
      [] value = 114 -> "OP_2SWAP"
      [] value = 115 -> "OP_IFDUP"
      [] value = 116 -> "OP_DEPTH"
      [] value = 117 -> "OP_DROP"
      [] value = 118 -> "OP_DUP"
      [] value = 119 -> "OP_NIP"
      [] value = 120 -> "OP_OVER"
      [] value = 121 -> "OP_PICK"
      [] value = 122 -> "OP_ROLL"
      [] value = 123 -> "OP_ROT"
      [] value = 124 -> "OP_SWAP"
      [] value = 125 -> "OP_TUCK"
      [] value = 126 -> "OP_CAT"
      [] value = 127 -> "OP_SPLIT"
      [] value = 130 -> "OP_SIZE"
      [] value = 131 -> "OP_INVERT"
      [] value = 132 -> "OP_AND"
      [] value = 133 -> "OP_OR"
      [] value = 134 -> "OP_XOR"
      [] value = 135 -> "OP_EQUAL"
      [] value = 136 -> "OP_EQUALVERIFY"
      [] value = 139 -> "OP_1ADD"
      [] value = 140 -> "OP_1SUB"
      [] value = 143 -> "OP_NEGATE"
      [] value = 144 -> "OP_ABS"
      [] value = 145 -> "OP_NOT"
      [] value = 146 -> "OP_0NOTEQUAL"
      [] value = 147 -> "OP_ADD"
      [] value = 148 -> "OP_SUB"
      [] value = 149 -> "OP_MUL"
      [] value = 150 -> "OP_DIV"
      [] value = 151 -> "OP_MOD"
      [] value = 152 -> "OP_LSHIFT"
      [] value = 153 -> "OP_RSHIFT"
      [] value = 154 -> "OP_BOOLAND"
      [] value = 155 -> "OP_BOOLOR"
      [] value = 156 -> "OP_NUMEQUAL"
      [] value = 157 -> "OP_NUMEQUALVERIFY"
      [] value = 158 -> "OP_NUMNOTEQUAL"
      [] value = 159 -> "OP_LESSTHAN"
      [] value = 160 -> "OP_GREATERTHAN"
      [] value = 161 -> "OP_LESSTHANOREQUAL"
      [] value = 162 -> "OP_GREATERTHANOREQUAL"
      [] value = 163 -> "OP_MIN"
      [] value = 164 -> "OP_MAX"
      [] value = 165 -> "OP_WITHIN"
      [] value = 128 -> "OP_NUM2BIN"
      [] value = 129 -> "OP_BIN2NUM"
      [] value = 166 -> "OP_RIPEMD160"
      [] value = 167 -> "OP_SHA1"
      [] value = 168 -> "OP_SHA256"
      [] value = 169 -> "OP_HASH160"
      [] value = 170 -> "OP_HASH256"
      [] value = 171 -> "OP_CODESEPARATOR"
      [] value = 172 -> "OP_CHECKSIG"
      [] value = 173 -> "OP_CHECKSIGVERIFY"
      [] value = 174 -> "OP_CHECKMULTISIG"
      [] value = 175 -> "OP_CHECKMULTISIGVERIFY"
      [] value = 177 -> "OP_CHECKLOCKTIMEVERIFY"
      [] value = 178 -> "OP_CHECKSEQUENCEVERIFY"
      [] value = 179 -> "OP_NOP4"
      [] value = 180 -> "OP_NOP5"
      [] value = 181 -> "OP_NOP6"
      [] value = 182 -> "OP_NOP7"
      [] value = 183 -> "OP_NOP8"
      [] value = 184 -> "OP_NOP9"
      [] value = 185 -> "OP_NOP10"
      [] value \in 186..250 -> "OP_INVALID_ABOVE"
      [] value = 251 -> "OP_DATA"
      [] value = 252 -> "OP_SIG"
      [] value = 253 -> "OP_PUBKEYHASH"
      [] value = 254 -> "OP_PUBKEY"
      [] value = 255 -> "OP_INVALIDOPCODE"
      [] OTHER -> "OP_INVALIDOPCODE"

(* OpCodes::from_u8 of the derived FromPrimitive: the variant whose        *)
(* discriminant is the byte, None when there is none.                      *)
from_u8(byte) ==
    IF \E c \in OpCodeNames : OpCodes[c] = byte
    THEN Some(CHOOSE c \in OpCodeNames : OpCodes[c] = byte)
    ELSE None

-----------------------------------------------------------------------------
(* script/script_bit.rs *)

(* enum ScriptBit *)
OpCodeBit(code)        == [type |-> "OpCode", code |-> code]
IfBit(code, pass, fail) == [type |-> "If", code |-> code, pass |-> pass, fail |-> fail]
PushBit(bytes)         == [type |-> "Push", data |-> bytes]
PushDataBit(code, bytes) == [type |-> "PushData", code |-> code, data |-> bytes]
CoinbaseBit(bytes)     == [type |-> "Coinbase", data |-> bytes]

(* A length field one byte wide whatever the opcode. *)
length_bytes_narrow(code, len) == ToLeBytes(len, 1)

(* The length field of a PushData node: (bytes.len() as uN).to_le_bytes() *)
length_bytes(code, len) ==
    CASE code = "OP_PUSHDATA1" -> ToLeBytes(len, 1)
      [] code = "OP_PUSHDATA2" -> ToLeBytes(len, 2)
      [] OTHER                 -> ToLeBytes(len, 4)

RECURSIVE to_vec(_), to_vec_all(_)
(* An encoding that writes OP_ELSE for every If node, fail present or not *)
to_vec_else_always(bit) ==
    CASE bit.type = "OpCode"   -> <<AsU8(bit.code)>>
      [] bit.type = "Push"     -> <<Len(bit.data) % 256>> \o bit.data
      [] bit.type = "PushData" ->
            <<AsU8(bit.code)>> \o length_bytes(bit.code, Len(bit.data)) \o bit.data
      [] bit.type = "If"       ->
            <<AsU8(bit.code)>> \o to_vec_all(bit.pass)
                \o <<AsU8("OP_ELSE")>>
                \o (IF IsSome(bit.fail) THEN to_vec_all(Unwrap(bit.fail)) ELSE <<>>)
                \o <<AsU8("OP_ENDIF")>>
      [] bit.type = "Coinbase" -> bit.data

(* ScriptBit::to_vec *)
to_vec(bit) ==
    CASE bit.type = "OpCode"   -> <<AsU8(bit.code)>>
      [] bit.type = "Push"     -> <<Len(bit.data) % 256>> \o bit.data
      [] bit.type = "PushData" ->
            <<AsU8(bit.code)>> \o length_bytes(bit.code, Len(bit.data)) \o bit.data
      [] bit.type = "If"       ->
            <<AsU8(bit.code)>> \o to_vec_all(bit.pass)
                \o (IF IsSome(bit.fail)
                    THEN <<AsU8("OP_ELSE")>> \o to_vec_all(Unwrap(bit.fail))
                    ELSE <<>>)
                \o <<AsU8("OP_ENDIF")>>
      [] bit.type = "Coinbase" -> bit.data

(* The loops `for bit in ...  bytes.extend_from_slice(&bit.to_vec())` *)
to_vec_all(bits) ==
    IF bits = <<>> THEN <<>> ELSE to_vec(Head(bits)) \o to_vec_all(Tail(bits))

PushDataCodes == {"OP_PUSHDATA1", "OP_PUSHDATA2", "OP_PUSHDATA4"}

(* The width of the length field read after an OP_PUSHDATA opcode. *)
length_width(v) ==
    CASE v = "OP_PUSHDATA1" -> 1
      [] v = "OP_PUSHDATA2" -> 2
      [] OTHER              -> 4

(* ScriptBit::from_bytes, with the position its cursor stopped at.  A      *)
(* Cursor's read() copies what is left when less than the buffer is left,  *)
(* and reports how much; read_u8/u16/u32 fail when too little is left.     *)
from_bytes_cursor(bytes) ==
    IF Len(bytes) = 0
    THEN [res |-> Err("Failed to decode ScriptBit"), pos |-> 0]
    ELSE
      LET byte == bytes[1] IN
      IF byte # AsU8("OP_0") /\ byte < AsU8("OP_PUSHDATA1")
      THEN LET len == Min(byte, Len(bytes) - 1)
           IN  [res |-> Ok(PushBit(SubSeq(bytes, 2, 1 + len))), pos |-> 1 + len]
      ELSE
        LET op == from_u8(byte) IN
        IF ~IsSome(op)
        THEN [res |-> Err("Unknown opcode"), pos |-> 1]
        ELSE
          LET v == Unwrap(op) IN
          IF v \in PushDataCodes
          THEN
            LET width == length_width(v) IN
            IF Len(bytes) - 1 < width
            THEN [res |-> Err("failed to fill whole buffer"), pos |-> Len(bytes)]
            ELSE
              LET data_length == FromLeBytes(SubSeq(bytes, 2, 1 + width))
                  len  == Min(data_length, Len(bytes) - 1 - width)
                  data == SubSeq(bytes, 2 + width, 1 + width + len)
                              \o Zeros(data_length - len)
              IN  [res |-> Ok(PushDataBit(v, data)), pos |-> 1 + width + len]
          ELSE [res |-> Ok(OpCodeBit(v)), pos |-> 1]

from_bytes(bytes) == from_bytes_cursor(bytes).res

-----------------------------------------------------------------------------
(* traits/varint.rs *)

(* A u64 is four 16-bit limbs, least significant first, and a u32 two:     *)
(* the values stay exact beyond 32 bits.                                   *)
Limb == 256 * 256

U64(n) == <<n % Limb, n \div Limb, 0, 0>>
U64Of16(limb) == <<limb, 0, 0, 0>>
U64Of32(limbs) == <<limbs[1], limbs[2], 0, 0>>

(* a <= b on limb sequences of one length *)
RECURSIVE LeLimbs(_, _)
LeLimbs(a, b) ==
    IF a = <<>> THEN TRUE
    ELSE LET n == Len(a) IN
         IF a[n] # b[n] THEN a[n] < b[n]
         ELSE LeLimbs(SubSeq(a, 1, n - 1), SubSeq(b, 1, n - 1))

(* the thresholds 252, 0xff, 0xffff, 0xffffffff as u64 *)
U64_252      == <<252, 0, 0, 0>>
U64_0xff     == <<255, 0, 0, 0>>
U64_0xffff   == <<65535, 0, 0, 0>>
U64_0xffffffff == <<65535, 65535, 0, 0>>

(* the casts `as u8`, `as u16`, `as u32` of a u64 *)
TruncU8(n)  == n[1] % 256
TruncU16(n) == n[1]
TruncU32(n) == <<n[1], n[2]>>

(* to_le_bytes / LittleEndian of a u16 limb and of a limb sequence *)
LimbLe(limb) == <<limb % 256, limb \div 256>>
RECURSIVE LimbsLe(_)
LimbsLe(limbs) ==
    IF limbs = <<>> THEN <<>> ELSE LimbLe(Head(limbs)) \o LimbsLe(Tail(limbs))

(* from little-endian bytes, an even number of them, to limbs *)
RECURSIVE LeLimbsOf(_)
LeLimbsOf(bs) ==
    IF bs = <<>> THEN <<>>
    ELSE <<bs[1] + 256 * bs[2]>> \o LeLimbsOf(SubSeq(bs, 3, Len(bs)))

(* VarInt::get_pushdata_opcode *)
get_pushdata_opcode(length) ==
    IF LeLimbs(length, U64(75)) THEN None
    ELSE IF LeLimbs(length, U64_0xff) THEN Some("OP_PUSHDATA1")
    ELSE IF LeLimbs(length, U64_0xffff) THEN Some("OP_PUSHDATA2")
    ELSE Some("OP_PUSHDATA4")

(* VarInt::get_varint_bytes *)
get_varint_bytes(length) ==
    IF LeLimbs(length, U64_252) THEN <<TruncU8(length)>>
    ELSE IF LeLimbs(length, U64_0xff) THEN <<253>> \o LimbLe(TruncU16(length))
    ELSE IF LeLimbs(length, U64_0xffff) THEN <<254>> \o LimbsLe(TruncU32(length))
    ELSE <<255>> \o LimbsLe(length)

(* VarIntUtil::get_bytes *)
get_bytes(length) ==
    IF LeLimbs(length, U64_252) THEN <<TruncU8(length)>>
    ELSE IF LeLimbs(length, U64_0xff) THEN <<253>> \o LimbLe(TruncU16(length))
    ELSE IF LeLimbs(length, U64_0xffff) THEN <<254>> \o LimbsLe(TruncU32(length))
    ELSE <<255>> \o LimbsLe(length)

(* std::io::Cursor<Vec<u8>>: the vector and the position in it *)
Cursor(inner) == [inner |-> inner, pos |-> 0]

(* Write for Cursor<Vec<u8>>: overwrites from the position on and grows    *)
(* the vector as needed; never fails.                                      *)
cursor_write(cur, bs) ==
    LET at == Min(cur.pos, Len(cur.inner))
    IN  [inner |-> SubSeq(cur.inner, 1, at) \o Zeros(cur.pos - at) \o bs
                     \o SubSeq(cur.inner, cur.pos + Len(bs) + 1, Len(cur.inner)),
         pos   |-> cur.pos + Len(bs)]

(* read_exact of n bytes on a Cursor: the bytes and the cursor behind      *)
(* them, or UnexpectedEof with the cursor at the end.                      *)
cursor_read_exact(cur, n) ==
    IF Len(cur.inner) - Min(cur.pos, Len(cur.inner)) < n
    THEN [res |-> Err("UnexpectedEof"), cur |-> [cur EXCEPT !.pos = Len(cur.inner)]]
    ELSE [res |-> Ok(SubSeq(cur.inner, cur.pos + 1, cur.pos + n)),
          cur |-> [cur EXCEPT !.pos = cur.pos + n]]

(* A writer that takes the 0xfd form up to 0xffffffff, cutting the value   *)
(* to 16 bits.                                                             *)
cursor_write_varint_wide_fd(cur, varint) ==
    LET write ==
          IF LeLimbs(varint, U64_252) THEN cursor_write(cur, <<TruncU8(varint)>>)
          ELSE IF LeLimbs(varint, U64_0xffffffff)
               THEN cursor_write(cursor_write(cur, <<253>>), LimbLe(TruncU16(varint)))
          ELSE cursor_write(cursor_write(cur, <<255>>), LimbsLe(varint))
    IN  [cur |-> write, res |-> Ok(varint)]

(* VarIntWriter for Cursor<Vec<u8>>: the cursor after write_varint and     *)
(* the Ok(varint as usize) it returns                                      *)
cursor_write_varint(cur, varint) ==
    LET write ==
          IF LeLimbs(varint, U64_252) THEN cursor_write(cur, <<TruncU8(varint)>>)
          ELSE IF LeLimbs(varint, U64_0xffff)
               THEN cursor_write(cursor_write(cur, <<253>>), LimbLe(TruncU16(varint)))
          ELSE IF LeLimbs(varint, U64_0xffffffff)
               THEN cursor_write(cursor_write(cur, <<254>>), LimbsLe(TruncU32(varint)))
          ELSE cursor_write(cursor_write(cur, <<255>>), LimbsLe(varint))
    IN  [cur |-> write, res |-> Ok(varint)]

(* VarIntWriter for Vec<u8>: Write for Vec<u8> appends and never fails *)
vec_write_varint(vec, varint) ==
    LET write ==
          IF LeLimbs(varint, U64_252) THEN vec \o <<TruncU8(varint)>>
          ELSE IF LeLimbs(varint, U64_0xffff)
               THEN (vec \o <<253>>) \o LimbLe(TruncU16(varint))
          ELSE IF LeLimbs(varint, U64_0xffffffff)
               THEN (vec \o <<254>>) \o LimbsLe(TruncU32(varint))
          ELSE (vec \o <<255>>) \o LimbsLe(varint)
    IN  [vec |-> write, res |-> Ok(varint)]

(* the width of the integer read_varint reads after the first byte *)
varint_width(first) ==
    CASE first = 255 -> 8
      [] first = 254 -> 4
      [] first = 253 -> 2
      [] OTHER       -> 0

(* VarIntReader for Cursor<Vec<u8>> *)
cursor_read_varint(cur) ==
    LET first == cursor_read_exact(cur, 1) IN
    IF ~first.res.ok THEN first
    ELSE LET b == first.res.v[1]
             w == varint_width(b)
         IN  IF w = 0 THEN [res |-> Ok(U64(b)), cur |-> first.cur]
             ELSE LET body == cursor_read_exact(first.cur, w) IN
                  IF ~body.res.ok THEN body
                  ELSE [res |-> Ok(LeLimbsOf(body.res.v) \o Zeros(4 - w \div 2)),
                        cur |-> body.cur]

-----------------------------------------------------------------------------
(* The hashing collaborator (crate::hash), outside the source at hand: a   *)
(* small mixing function stands for each hash, with the output length of   *)
(* the real one.                                                           *)

(* The bytes lo..hi folded into acc, left to right.  The fold is never     *)
(* negative: the test on it only fixes the order of evaluation.            *)
RECURSIVE MixRange(_, _, _, _)
MixRange(acc, bytes, lo, hi) ==
    IF lo > hi THEN acc
    ELSE IF lo = hi THEN (acc * 31 + bytes[lo] + 1) % 65521
    ELSE LET left == MixRange(acc, bytes, lo, (lo + hi) \div 2) IN
         IF left < 0 THEN left
         ELSE MixRange(left, bytes, (lo + hi) \div 2 + 1, hi)

Mix(acc, bytes) == MixRange(acc, bytes, 1, Len(bytes))

Stretch(seed, len) == [i \in 1..len |-> (seed * (2 * i + 1) + i * i) % 256]

sha_256(bytes)  == Stretch(Mix(1, bytes), 32)
sha_256d(bytes) == sha_256(sha_256(bytes))
hash_160(bytes) == Stretch(Mix(5, sha_256(bytes)), 20)

(* big-endian bytes, at most three of them counted, as a number *)
RECURSIVE FromBeBytes(_)
FromBeBytes(bs) ==
    IF bs = <<>> THEN 0 ELSE bs[Len(bs)] + 256 * FromBeBytes(SubSeq(bs, 1, Len(bs) - 1))

-----------------------------------------------------------------------------
(* The curve collaborator (k256), outside the source at hand: the curve    *)
(* y^2 = x^3 + 7 of secp256k1 over a small prime field, where it has a     *)
(* prime number of points.                                                 *)

FieldP == 43
CurveN == 31
Generator == <<2, 12>>
Infinity == <<>>

InvMod(a, m) == CHOOSE i \in 1..(m - 1) : (a * i) % m = 1

PointAdd(p, q) ==
    IF p = Infinity THEN q
    ELSE IF q = Infinity THEN p
    ELSE IF p[1] = q[1] /\ (p[2] + q[2]) % FieldP = 0 THEN Infinity
    ELSE LET slope == IF p = q
                      THEN (3 * p[1] * p[1] * InvMod((2 * p[2]) % FieldP, FieldP)) % FieldP
                      ELSE ((q[2] + FieldP - p[2])
                              * InvMod((q[1] + FieldP - p[1]) % FieldP, FieldP)) % FieldP
             x == (slope * slope + 2 * FieldP - p[1] - q[1]) % FieldP
             y == (slope * (p[1] + FieldP - x) + FieldP - p[2]) % FieldP
         IN  <<x, y>>

RECURSIVE ScalarMul(_, _)
ScalarMul(k, p) == IF k = 0 THEN Infinity ELSE PointAdd(p, ScalarMul(k - 1, p))

(* the scalars a PrivateKey can hold *)
Scalars == 1..(CurveN - 1)

-----------------------------------------------------------------------------
(* The ECDSA engine (ECDSA::sign_with_k, ECDSA::private_key_from_signature_k), *)
(* outside the source at hand: modelled from its specification.            *)

(* get_hash_digest, reduced to a scalar *)
digest_scalar(hash_algo, message) ==
    LET digest == IF hash_algo = "Sha256d" THEN sha_256d(message) ELSE sha_256(message)
    IN  FromBeBytes(SubSeq(digest, 1, 2)) % CurveN

(* s = k^-1 (z + r d) mod n, with r the x coordinate of k G mod n *)
sign_with_k(private_key, ephemeral_key, message, hash_algo) ==
    LET z == digest_scalar(hash_algo, message)
        r == ScalarMul(ephemeral_key, Generator)[1] % CurveN
        s == (InvMod(ephemeral_key, CurveN) * (z + r * private_key)) % CurveN
    IN  IF r = 0 \/ s = 0 THEN Err("signature") ELSE Ok([r |-> r, s |-> s])

(* A recovery that adds the digest: r^-1 (s k + z) mod n *)
private_key_from_signature_k_plus(signature, public_key, ephemeral_key, message, hash_algo) ==
    LET z == digest_scalar(hash_algo, message)
        d == (InvMod(signature.r, CurveN)
                * ((signature.s * ephemeral_key + z) % CurveN)) % CurveN
    IN  IF d = 0 THEN Err("private key") ELSE Ok(d)

(* d = r^-1 (s k - z) mod n *)
private_key_from_signature_k(signature, public_key, ephemeral_key, message, hash_algo) ==
    LET z == digest_scalar(hash_algo, message)
        d == (InvMod(signature.r, CurveN)
                * ((signature.s * ephemeral_key + CurveN - z) % CurveN)) % CurveN
    IN  IF d = 0 THEN Err("private key") ELSE Ok(d)

(* PublicKey::from_private_key *)
public_key_of(private_key) == ScalarMul(private_key, Generator)

-----------------------------------------------------------------------------
(* The Base58 collaborator (bs58), outside the source at hand.  A string   *)
(* is the sequence of its characters, each the digit 0..57 it stands for   *)
(* in the Base58 alphabet; 58 is a character outside the alphabet.         *)

RECURSIVE LeadingZeros(_, _)
LeadingZeros(ds, i) ==
    IF i <= Len(ds) /\ ds[i] = 0 THEN LeadingZeros(ds, i + 1) ELSE i - 1

StripZeros(ds) == SubSeq(ds, LeadingZeros(ds, 1) + 1, Len(ds))

(* The long division by `to` of the digits lo..hi of ds (base `from`, most *)
(* significant first), entered with the remainder rem: the quotient digits *)
(* and the remainder left.  A remainder is always below `to`: the tests on *)
(* it only fix the order of evaluation.                                    *)
RECURSIVE DivRange(_, _, _, _, _, _)
DivRange(ds, lo, hi, from, to, rem) ==
    IF lo > hi THEN [quot |-> <<>>, rem |-> rem]
    ELSE IF lo = hi
    THEN LET cur == rem * from + ds[lo]
         IN  [quot |-> <<cur \div to>>, rem |-> cur % to]
    ELSE LET a == DivRange(ds, lo, (lo + hi) \div 2, from, to, rem) IN
         IF a.rem >= to THEN a
         ELSE LET b == DivRange(ds, (lo + hi) \div 2 + 1, hi, from, to, a.rem) IN
              IF b.rem >= to THEN b
              ELSE [quot |-> a.quot \o b.quot, rem |-> b.rem]

(* `rounds` divisions by `to`, each of the quotient of the one before: the *)
(* remainders, the last one first, and the last quotient.                  *)
RECURSIVE DivRounds(_, _, _, _)
DivRounds(ds, from, to, rounds) ==
    IF rounds = 0 THEN [quot |-> ds, digits |-> <<>>]
    ELSE IF rounds = 1
    THEN LET d == DivRange(ds, 1, Len(ds), from, to, 0)
         IN  [quot |-> d.quot, digits |-> <<d.rem>>]
    ELSE LET a == DivRounds(ds, from, to, rounds \div 2) IN
         IF Len(a.quot) > Len(ds) THEN a
         ELSE LET b == DivRounds(a.quot, from, to, rounds - rounds \div 2) IN
              IF Len(b.quot) > Len(ds) THEN b
              ELSE [quot |-> b.quot, digits |-> b.digits \o a.digits]

(* bs58::encode(bytes).into_string(): a "1" (digit 0) for each leading     *)
(* zero byte, then the number the bytes hold in base 58.                   *)
bs58_encode(bytes) ==
    LET body == StripZeros(bytes)
    IN  Zeros(Len(bytes) - Len(body))
            \o StripZeros(DivRounds(body, 256, 58, (Len(body) * 138) \div 100 + 1).digits)

(* bs58::decode(string).into_vec() *)
bs58_decode(string) ==
    IF \E i \in 1..Len(string) : string[i] > 57
    THEN Err("InvalidCharacter")
    ELSE LET body == StripZeros(string)
         IN  Ok(Zeros(Len(string) - Len(body))
                  \o StripZeros(DivRounds(body, 58, 256, (Len(body) * 733) \div 1000 + 1).digits))

-----------------------------------------------------------------------------
(* The hex collaborator (hex, ToHex).  A hex string is the sequence of its *)
(* characters, each the value 0..15 of the hex digit: a decimal digit is   *)
(* the same character as the hex digit of its value.                       *)

RECURSIVE to_hex(_)
to_hex(bytes) ==
    IF bytes = <<>> THEN <<>>
    ELSE <<Head(bytes) \div 16, Head(bytes) % 16>> \o to_hex(Tail(bytes))

RECURSIVE hex_pairs(_)
hex_pairs(chars) ==
    IF chars = <<>> THEN <<>>
    ELSE <<chars[1] * 16 + chars[2]>> \o hex_pairs(SubSeq(chars, 3, Len(chars)))

(* hex::decode *)
hex_decode(chars) ==
    IF Len(chars) % 2 = 1 THEN Err("OddLength") ELSE Ok(hex_pairs(chars))

-----------------------------------------------------------------------------
(* The key collaborators (PrivateKey, PublicKey), outside the source at    *)
(* hand: a private key is a scalar of the small curve, serialised as 32    *)
(* bytes big-endian; a public key is its point, serialised compressed.     *)

KeyLen == 32

private_key_to_bytes(private_key) == Zeros(KeyLen - 1) \o <<private_key>>

(* SecretKey::from_bytes, PrivateKey::from_bytes_impl: 32 bytes holding a  *)
(* scalar in 1..n-1                                                        *)
private_key_from_bytes(bytes) ==
    IF Len(bytes) # KeyLen THEN Err("InvalidPrivateKey")
    ELSE IF \E i \in 1..(KeyLen - 1) : bytes[i] # 0 THEN Err("InvalidPrivateKey")
    ELSE IF bytes[KeyLen] = 0 \/ bytes[KeyLen] >= CurveN THEN Err("InvalidPrivateKey")
    ELSE Ok(bytes[KeyLen])

(* PublicKey::to_bytes_impl of a compressed key *)
public_key_to_bytes(public_key) ==
    <<2 + (public_key[2] % 2)>> \o Zeros(KeyLen - 1) \o <<public_key[1]>>

(* Hash::sha_512_hmac(input, key): 64 bytes.  The left half holds a        *)
(* number that is now and then 0 or not below the curve order, as the real *)
(* one can be.                                                             *)
sha_512_hmac(input, key) ==
    LET seed == Mix(Mix(7, key), input)
    IN  Zeros(KeyLen - 1) \o <<seed % (CurveN + 3)>> \o Stretch(seed, 32)

-----------------------------------------------------------------------------
(* keypair/extended_private_key.rs *)

(* A u32 is two 16-bit limbs, least significant first. *)
U32(n) == <<n % Limb, n \div Limb>>

(* index.to_be_bytes() *)
to_be_bytes(index) ==
    <<index[2] \div 256, index[2] % 256, index[1] \div 256, index[1] % 256>>

(* read_u32::<BigEndian> *)
from_be_bytes(bytes) == <<bytes[3] * 256 + bytes[4], bytes[1] * 256 + bytes[2]>>

(* The decimal digits of a u32, none for 0. *)
RECURSIVE decimal_digits(_)
decimal_digits(n) ==
    IF n = <<0, 0>> THEN <<>>
    ELSE LET cur == (n[2] % 10) * Limb + n[1]
         IN  decimal_digits(<<cur \div 10, n[2] \div 10>>) \o <<cur % 10>>

(* format!("{:0width}", n): in decimal, zeros in front up to the width *)
format_decimal(n, width) ==
    LET digits == IF n = <<0, 0>> THEN <<0>> ELSE decimal_digits(n)
    IN  Zeros(width - Min(width, Len(digits))) \o digits

(* struct ExtendedPrivateKey *)
ExtendedPrivateKey(private_key, public_key, chain_code, depth, index, parent_fingerprint) ==
    [private_key |-> private_key, public_key |-> public_key, chain_code |-> chain_code,
     depth |-> depth, index |-> index, parent_fingerprint |-> parent_fingerprint]

(* ExtendedPrivateKey::new *)
new(private_key, chain_code, depth, index, parent_fingerprint) ==
    ExtendedPrivateKey(private_key, public_key_of(private_key), chain_code, depth, index,
        IF IsSome(parent_fingerprint) THEN Unwrap(parent_fingerprint) ELSE <<0, 0, 0, 0>>)

(* "0488ade4" *)
XprvVersion == <<0, 4, 8, 8, 10, 13, 14, 4>>

(* ExtendedPrivateKey::to_string_impl: the result, and the bytes handed to *)
(* bs58::encode                                                            *)
to_string_impl(self) ==
    LET serialised ==
            XprvVersion
              \o format_decimal(U32(self.depth), 2)
              \o to_hex(self.parent_fingerprint)
              \o format_decimal(self.index, 8)
              \o to_hex(self.chain_code)
              \o <<0, 0>> \o to_hex(private_key_to_bytes(self.private_key))
        payload == hex_decode(serialised)
    IN  IF ~payload.ok
        THEN [res |-> Err("SerialisationError"), bytes |-> <<>>]
        ELSE LET checksum == SubSeq(sha_256d(payload.v), 1, 4)
                 v == hex_decode(serialised \o to_hex(checksum))
             IN  IF ~v.ok
                 THEN [res |-> Err("SerialisationError"), bytes |-> <<>>]
                 ELSE [res |-> Ok(bs58_encode(v.v)), bytes |-> v.v]

(* ExtendedPrivateKey::from_string_impl *)
from_string_impl(xprv_string) ==
    LET decoded_bytes == bs58_decode(xprv_string) IN
    IF ~decoded_bytes.ok THEN Err("bs58")
    ELSE
      LET start     == [inner |-> decoded_bytes.v, pos |-> 4]
          depth     == cursor_read_exact(start, 1)
          parent_fingerprint == cursor_read_exact(depth.cur, 4)
          index     == cursor_read_exact(parent_fingerprint.cur, 4)
          chain_code == cursor_read_exact(index.cur, 32)
          skipped   == [chain_code.cur EXCEPT !.pos = chain_code.cur.pos + 1]
          private_key_bytes == cursor_read_exact(skipped, 32)
          checksum  == cursor_read_exact(private_key_bytes.cur, 4)
      IN  IF ~depth.res.ok \/ ~parent_fingerprint.res.ok \/ ~index.res.ok
                \/ ~chain_code.res.ok \/ ~private_key_bytes.res.ok
          THEN Err("UnexpectedEof")
          ELSE LET private_key == private_key_from_bytes(private_key_bytes.res.v) IN
               IF ~private_key.ok THEN Err("InvalidPrivateKey")
               ELSE IF ~checksum.res.ok THEN Err("UnexpectedEof")
               ELSE Ok(ExtendedPrivateKey(private_key.v, public_key_of(private_key.v),
                          chain_code.res.v, depth.res.v[1],
                          from_be_bytes(index.res.v), parent_fingerprint.res.v))

(* A call that does not return: a panic. *)
Panic(message) == [ok |-> FALSE, panic |-> message]

(* a derive that takes 0x80000000 itself for a normal index *)
derive_key_data_above(self, index) ==
    LET is_hardened == index[2] > 32768 \/ (index[2] = 32768 /\ index[1] > 0)
    IN  IF is_hardened
        THEN <<0>> \o private_key_to_bytes(self.private_key) \o to_be_bytes(index)
        ELSE public_key_to_bytes(self.public_key) \o to_be_bytes(index)

(* derive_impl, lines 178-204: is_hardened and the HMAC message key_data *)
derive_key_data(self, index) ==
    LET is_hardened == index[2] >= 32768
    IN  IF is_hardened
        THEN <<0>> \o private_key_to_bytes(self.private_key) \o to_be_bytes(index)
        ELSE public_key_to_bytes(self.public_key) \o to_be_bytes(index)

(* derive_impl, lines 206-251: from the HMAC of key_data under the chain    *)
(* code to the child.  `overflow_checks` is the build's setting: on,        *)
(* `self.depth + 1` panics at 255; off, it wraps to 0.                      *)
derive_finish(self, index, key_data, overflow_checks) ==
    LET seed_bytes == sha_512_hmac(key_data, self.chain_code)
        private_key_bytes == SubSeq(seed_bytes, 1, 32)
        child_chain_code  == SubSeq(seed_bytes, 33, 64)
        il == private_key_from_bytes(private_key_bytes)
    IN  IF ~il.ok THEN Panic("unwrap on an Err value")
        ELSE
          LET derived_private_key == (self.private_key + il.v) % CurveN
              child_private_key ==
                  private_key_from_bytes(private_key_to_bytes(derived_private_key))
          IN  IF ~child_private_key.ok THEN Err("InvalidPrivateKeyError")
              ELSE IF self.depth = 255 /\ overflow_checks
              THEN Panic("attempt to add with overflow")
              ELSE Ok(ExtendedPrivateKey(child_private_key.v,
                          public_key_of(child_private_key.v), child_chain_code,
                          (self.depth + 1) % 256, index, <<0, 0, 0, 0>>))

(* ExtendedPrivateKey::derive_impl *)
derive_impl(self, index, overflow_checks) ==
    derive_finish(self, index, derive_key_data(self, index), overflow_checks)

(* b"Bitcoin seed" *)
BitcoinSeed == <<66, 105, 116, 99, 111, 105, 110, 32, 115, 101, 101, 100>>

(* ExtendedPrivateKey::from_seed_impl *)
from_seed_impl(seed) ==
    LET seed_bytes == sha_512_hmac(seed, BitcoinSeed)
        private_key_bytes == SubSeq(seed_bytes, 1, 32)
        chain_code == SubSeq(seed_bytes, 33, 64)
        priv_key == private_key_from_bytes(private_key_bytes)
    IN  IF ~priv_key.ok THEN Err("InvalidPrivateKeyError")
        ELSE Ok(ExtendedPrivateKey(priv_key.v, public_key_of(priv_key.v), chain_code,
                    0, U32(0), <<0, 0, 0, 0>>))

(* ExtendedPrivateKey::from_random_impl.  `source` is what getrandom did   *)
(* with the 64 zero bytes handed to it: whether it succeeded, and the      *)
(* buffer it left.  The match on its result is a statement whose value is  *)
(* dropped.                                                                *)
from_random_impl(source) ==
    LET seed == source.buffer
        dropped == IF source.ok THEN Ok(<<>>) ELSE Err("RandomnessGenerationError")
    IN  from_seed_impl(seed)

(* path[1..].split('/'): a path is the sequence of its characters *)
RECURSIVE split(_, _)
split(chars, separator) ==
    IF \A i \in 1..Len(chars) : chars[i] # separator THEN <<chars>>
    ELSE LET at == CHOOSE i \in 1..Len(chars) :
                       chars[i] = separator /\ \A j \in 1..(i - 1) : chars[j] # separator
         IN  <<SubSeq(chars, 1, at - 1)>> \o split(SubSeq(chars, at + 1, Len(chars)), separator)

(* ExtendedPrivateKey::derive_from_path: the indices it collects, and the  *)
(* error it returns on every path                                          *)
derive_from_path(path) ==
    IF ~(Len(path) > 0 /\ path[1] = "m") THEN Err("DerivationError")
    ELSE LET children == split(SubSeq(path, 2, Len(path)), "/")
             child_indices ==
                 [i \in 1..Len(children) |->
                     IF Len(children[i]) > 0 /\ children[i][Len(children[i])] = "'"
                     THEN <<0, 32768>> ELSE U32(0)]
         IN  Err("DerivationError")


(* ---- varint.rs: VarIntUtil ---- *)

U64_MAX == <<65535, 65535, 65535, 65535>>

(* n >> 7, n << 7 (bits shifted out are dropped), and the bit-or of two     *)
(* numbers below 2^16, on limb sequences                                    *)
Shr7(n) ==
    [i \in 1..Len(n) |-> (n[i] \div 128) + (IF i = Len(n) THEN 0 ELSE (n[i + 1] % 128) * 512)]
Shl7(n) ==
    [i \in 1..Len(n) |-> ((n[i] * 128) % Limb) + (IF i = 1 THEN 0 ELSE n[i - 1] \div 512)]

RECURSIVE BitOr(_, _)
BitOr(a, b) ==
    IF a = 0 THEN b
    ELSE IF b = 0 THEN a
    ELSE (IF a % 2 = 1 \/ b % 2 = 1 THEN 1 ELSE 0) + 2 * BitOr(a \div 2, b \div 2)

(* n + 1 on limbs: the sum cut to the width, and whether it overflowed *)
RECURSIVE AddOne(_)
AddOne(n) ==
    IF n = <<>> THEN [sum |-> <<>>, overflow |-> TRUE]
    ELSE IF n[1] < Limb - 1 THEN [sum |-> <<n[1] + 1>> \o Tail(n), overflow |-> FALSE]
    ELSE LET up == AddOne(Tail(n)) IN [sum |-> <<0>> \o up.sum, overflow |-> up.overflow]

(* VarIntUtil::read_u8 on a cursor over `bytes` at `pos` *)
read_u8(bytes, pos) ==
    IF pos < Len(bytes) THEN [res |-> Ok(bytes[pos + 1]), pos |-> pos + 1]
    ELSE [res |-> Err("UnexpectedEof"), pos |-> pos]

(* read_var_int::<_, u64>: the loop's bound, with size_of::<u64>() = 8 *)
max_size == (8 * 8 + 6) \div 7

(* The loop of read_var_int from its round `round` on.  The answer carries  *)
(* the accumulator n and the cursor position the function left with.  With  *)
(* overflow checks on, `n + 1` panics on overflow; off, it wraps.           *)
(* a loop that leaves out `n = n + 1` after a continued byte *)
RECURSIVE read_var_int_loop_no_plus(_, _, _, _, _)
read_var_int_loop_no_plus(n, bytes, pos, round, overflow_checks) ==
    IF round >= max_size
    THEN [res |-> Err("deserialization error"), n |-> n, pos |-> pos]
    ELSE IF ~LeLimbs(n, Shr7(U64_MAX))
    THEN [res |-> Err("read_var_int overflow"), n |-> n, pos |-> pos]
    ELSE LET ch_data == read_u8(bytes, pos) IN
         IF ~ch_data.res.ok
         THEN [res |-> ch_data.res, n |-> n, pos |-> ch_data.pos]
         ELSE LET shifted == Shl7(n)
                  joined  == [shifted EXCEPT ![1] = BitOr(shifted[1], ch_data.res.v % 128)]
              IN  IF ch_data.res.v < 128
                  THEN [res |-> Ok(joined), n |-> joined, pos |-> ch_data.pos]
                  ELSE read_var_int_loop_no_plus(joined, bytes, ch_data.pos, round + 1,
                                                 overflow_checks)

RECURSIVE read_var_int_loop(_, _, _, _, _)
read_var_int_loop(n, bytes, pos, round, overflow_checks) ==
    IF round >= max_size
    THEN [res |-> Err("deserialization error"), n |-> n, pos |-> pos]
    ELSE IF ~LeLimbs(n, Shr7(U64_MAX))
    THEN [res |-> Err("read_var_int overflow"), n |-> n, pos |-> pos]
    ELSE LET ch_data == read_u8(bytes, pos) IN
         IF ~ch_data.res.ok
         THEN [res |-> ch_data.res, n |-> n, pos |-> ch_data.pos]
         ELSE LET shifted == Shl7(n)
                  joined  == [shifted EXCEPT ![1] = BitOr(shifted[1], ch_data.res.v % 128)]
                  next    == AddOne(joined)
              IN  IF ch_data.res.v < 128
                  THEN [res |-> Ok(joined), n |-> joined, pos |-> ch_data.pos]
                  ELSE IF next.overflow /\ overflow_checks
                  THEN [res |-> Panic("attempt to add with overflow"), n |-> joined,
                        pos |-> ch_data.pos]
                  ELSE read_var_int_loop(next.sum, bytes, ch_data.pos, round + 1,
                                         overflow_checks)

(* VarIntUtil::read_var_int with I = u64 *)
read_var_int(bytes, overflow_checks) ==
    read_var_int_loop(<<0, 0, 0, 0>>, bytes, 0, 0, overflow_checks)

(* The loop `while e > 0 { n *= 10; e -= 1; }` of decompress_value *)
RECURSIVE times_ten(_, _)
times_ten(n, e) == IF e > 0 THEN times_ten(n * 10, e - 1) ELSE n

(* A decompression that takes the digit as x % 9, without the + 1 *)
decompress_value_no_plus(input) ==
    IF input = 0 THEN 0
    ELSE LET x0 == input - 1
             e  == x0 % 10
             x1 == x0 \div 10
             n  == IF e < 9
                   THEN LET d  == x1 % 9
                            x2 == x1 \div 9
                        IN  x2 * 10 + d
                   ELSE x1 + 1
         IN  times_ten(n, e)

(* VarIntUtil::decompress_value, for inputs whose steps stay within u64 *)
decompress_value(input) ==
    IF input = 0 THEN 0
    ELSE LET x0 == input - 1
             e  == x0 % 10
             x1 == x0 \div 10
             n  == IF e < 9
                   THEN LET d  == (x1 % 9) + 1
                            x2 == x1 \div 9
                        IN  x2 * 10 + d
                   ELSE x1 + 1
         IN  times_ten(n, e)

-----------------------------------------------------------------------------
(* ECDSA::verify_digest_impl.  get_hash_digest, ReversibleDigest and the    *)
(* curve library's point decoding and verification are outside the source  *)
(* at hand: modelled from their specification over the small curve.         *)

(* get_hash_digest(hash_algo, message): the digest, as the bytes it will finalize to *)
get_hash_digest(hash_algo, message) ==
    IF hash_algo = "Sha256d" THEN sha_256d(message) ELSE sha_256(message)

(* ReversibleDigest::reverse: the digest whose bytes come out in reverse order *)
reverse(digest) == [i \in 1..Len(digest) |-> digest[Len(digest) + 1 - i]]

(* EncodedPoint::from_bytes, then VerifyingKey::from_encoded_point, of a    *)
(* compressed key: the point of that x and that parity, if the curve has one *)
from_encoded_point(bytes) ==
    IF Len(bytes) # KeyLen + 1 \/ bytes[1] \notin {2, 3} THEN Err("CustomECDSAError")
    ELSE LET x  == bytes[KeyLen + 1]
             ys == {y \in 0..(FieldP - 1) :
                       /\ (y * y) % FieldP = (x * x * x + 7) % FieldP
                       /\ y % 2 = bytes[1] - 2}
         IN  IF ys = {} THEN Err("ECDSAError") ELSE Ok(<<x, CHOOSE y \in ys : TRUE>>)

(* DigestVerifier::verify_digest of the curve library: with w = s^-1,       *)
(* accepts when the x coordinate of (z w) G + (r w) Q is r mod n            *)
key_verify_digest(key, digest, sig) ==
    IF sig.r \notin Scalars \/ sig.s \notin Scalars THEN Err("ECDSAError")
    ELSE LET z  == FromBeBytes(SubSeq(digest, 1, 2)) % CurveN
             w  == InvMod(sig.s, CurveN)
             u1 == (z * w) % CurveN
             u2 == (sig.r * w) % CurveN
             point == PointAdd(ScalarMul(u1, Generator), ScalarMul(u2, key))
         IN  IF point # Infinity /\ point[1] % CurveN = sig.r
             THEN Ok(TRUE) ELSE Err("ECDSAError")

(* A verification with the arms of the match exchanged *)
verify_digest_impl_swapped(message, pub_key, signature, hash_algo, reverse_k) ==
    LET pub_key_bytes == public_key_to_bytes(pub_key)
        key == from_encoded_point(pub_key_bytes)
    IN  IF ~key.ok THEN key
        ELSE LET digest == get_hash_digest(hash_algo, message)
                 check  == IF reverse_k
                           THEN key_verify_digest(key.v, digest, signature)
                           ELSE key_verify_digest(key.v, reverse(digest), signature)
             IN  IF ~check.ok THEN check ELSE Ok(TRUE)

(* A run that computes the digest before it decodes the key *)
verify_digest_run_digest_first(message, pub_key, signature, hash_algo, reverse_k) ==
    LET pub_key_bytes == public_key_to_bytes(pub_key)
        digest == get_hash_digest(hash_algo, message)
        key == from_encoded_point(pub_key_bytes)
        decoding == <<"get_hash_digest", "to_bytes_impl", "EncodedPoint::from_bytes">>
    IN  IF ~key.ok
        THEN [res |-> key,
              calls |-> IF key.err = "CustomECDSAError" THEN decoding
                        ELSE decoding \o <<"VerifyingKey::from_encoded_point">>]
        ELSE LET check == IF reverse_k
                          THEN key_verify_digest(key.v, reverse(digest), signature)
                          ELSE key_verify_digest(key.v, digest, signature)
             IN  [res |-> IF ~check.ok THEN check ELSE Ok(TRUE),
                  calls |-> (decoding \o <<"VerifyingKey::from_encoded_point">>)
                            \o (IF reverse_k THEN <<"reverse">> ELSE <<>>)
                            \o <<"verify_digest">>]

(* ECDSA::verify_digest_impl, statement by statement: its result and the    *)
(* calls it made, in order, up to its return                                *)
verify_digest_run(message, pub_key, signature, hash_algo, reverse_k) ==
    LET pub_key_bytes == public_key_to_bytes(pub_key)
        key == from_encoded_point(pub_key_bytes)
        decoding == <<"to_bytes_impl", "EncodedPoint::from_bytes">>
    IN  IF ~key.ok
        THEN [res |-> key,
              calls |-> IF key.err = "CustomECDSAError" THEN decoding
                        ELSE decoding \o <<"VerifyingKey::from_encoded_point">>]
        ELSE LET digest == get_hash_digest(hash_algo, message)
                 check  == IF reverse_k
                           THEN key_verify_digest(key.v, reverse(digest), signature)
                           ELSE key_verify_digest(key.v, digest, signature)
             IN  [res |-> IF ~check.ok THEN check ELSE Ok(TRUE),
                  calls |-> (decoding \o <<"VerifyingKey::from_encoded_point", "get_hash_digest">>)
                            \o (IF reverse_k THEN <<"reverse">> ELSE <<>>)
                            \o <<"verify_digest">>]

(* ECDSA::verify_digest_impl: what it returns *)
verify_digest_impl(message, pub_key, signature, hash_algo, reverse_k) ==
    verify_digest_run(message, pub_key, signature, hash_algo, reverse_k).res

-----------------------------------------------------------------------------
(* Calls on several threads.  The locals of a call (key_data in             *)
(* derive_impl, the signature in the test's closure) live in the frame of   *)
(* the thread that makes the call.                                          *)

(* A lookup that finds the first frame any thread making this call has filled *)
local_of_shared(frames, thread) ==
    frames[CHOOSE other \in DOMAIN frames :
               /\ frames[other] # None
               /\ par_tasks[other].op = par_tasks[thread].op
               /\ \A before \in DOMAIN frames :
                      before < other =>
                          frames[before] = None \/ par_tasks[before].op # par_tasks[thread].op]

local_of(frames, thread) == frames[thread]

-----------------------------------------------------------------------------
(* VarIntUtil::read_bytes: (value, size).  bytes[0] and the slices          *)
(* bytes[1..9], bytes[1..5], bytes[1..3] panic when the vector is shorter.  *)
read_bytes(bytes) ==
    IF Len(bytes) = 0 THEN Panic("index out of bounds")
    ELSE LET w == varint_width(bytes[1]) IN
         IF w = 0 THEN Ok([value |-> U64(bytes[1]), size |-> 1])
         ELSE IF Len(bytes) < 1 + w THEN Panic("range end index out of range for slice")
         ELSE Ok([value |-> LeLimbsOf(SubSeq(bytes, 2, 1 + w)) \o Zeros(4 - w \div 2),
                  size  |-> 1 + w])

(* VarIntReader for Vec<u8>: read_var_int on a cursor over the vector *)
vec_read_varint(vec, overflow_checks) == read_var_int(vec, overflow_checks).res

-----------------------------------------------------------------------------
(* ScriptBit::to_asm_string_impl.  A String is the sequence of its pieces:  *)
(* a mnemonic, a single space, a decimal digit or a hex digit each.         *)

HexChars ==
    <<"0", "1", "2", "3", "4", "5", "6", "7", "8", "9", "a", "b", "c", "d", "e", "f">>

(* hex::encode(bytes) *)
hex_encode(bytes) == LET digits == to_hex(bytes) IN [i \in 1..Len(digits) |-> HexChars[digits[i] + 1]]

(* n.to_string() of a usize *)
RECURSIVE usize_to_string(_)
usize_to_string(n) ==
    IF n < 10 THEN <<HexChars[n + 1]>>
    ELSE usize_to_string(n \div 10) \o <<HexChars[(n % 10) + 1]>>

(* string_parts.join(" ") *)
RECURSIVE join(_, _)
join(string_parts, separator) ==
    IF string_parts = <<>> THEN <<>>
    ELSE IF Len(string_parts) = 1 THEN string_parts[1]
    ELSE (string_parts[1] \o <<separator>>) \o join(Tail(string_parts), separator)

RECURSIVE to_asm_string_impl(_, _), asm_parts(_, _), asm_parts_all(_, _)

(* a rendering of the branches that pushes every rendering, empty or not *)
asm_parts_all(bits, extended) ==
    IF bits = <<>> THEN <<>>
    ELSE <<to_asm_string_impl(Head(bits), extended)>> \o asm_parts_all(Tail(bits), extended)

(* the loops `for bit in pass` and `for bit in fail`: the renderings of     *)
(* the nodes that are not empty, in order                                   *)
asm_parts(bits, extended) ==
    IF bits = <<>> THEN <<>>
    ELSE LET bit_string == to_asm_string_impl(Head(bits), extended)
         IN  (IF bit_string # <<>> THEN <<bit_string>> ELSE <<>>)
                 \o asm_parts(Tail(bits), extended)

to_asm_string_impl(bit, extended) ==
    CASE bit.type = "OpCode" ->
            IF bit.code = "OP_0"
            THEN (IF extended THEN <<"OP_0">> ELSE usize_to_string(0))
            ELSE <<bit.code>>
      [] bit.type = "Push" ->
            IF extended
            THEN <<"OP_PUSH", " ">> \o usize_to_string(Len(bit.data)) \o <<" ">>
                     \o hex_encode(bit.data)
            ELSE hex_encode(bit.data)
      [] bit.type = "PushData" ->
            IF extended
            THEN <<bit.code, " ">> \o usize_to_string(Len(bit.data)) \o <<" ">>
                     \o hex_encode(bit.data)
            ELSE hex_encode(bit.data)
      [] bit.type = "If" ->
            join(<<<<bit.code>>>>
                     \o asm_parts(bit.pass, extended)
                     \o (IF IsSome(bit.fail)
                         THEN <<<<"OP_ELSE">>>> \o asm_parts(Unwrap(bit.fail), extended)
                         ELSE <<>>)
                     \o <<<<"OP_ENDIF">>>>,
                 " ")
      [] bit.type = "Coinbase" -> hex_encode(bit.data)
-----------------------------------------------------------------------------
(* The scenarios. *)

IdleOp     == from_value = 0 /\ opcode = None /\ into_value = None
IdleScript ==
    /\ script = <<>> /\ encoded = <<>> /\ rest = <<>> /\ decoded = <<>>
    /\ asm_extended = FALSE /\ asm_rendered = None
IdleVarInt ==
    /\ input_varint = U64(0) /\ cursor = Cursor(<<>>) /\ cursor_read = None
    /\ vec_buf = <<>> /\ varint_bytes = None /\ util_bytes = None
    /\ pushdata_opcode = None /\ vec_read = None

IdleEcdsa ==
    /\ ec_private_key = 1 /\ ec_ephemeral_key = 1 /\ ec_message = <<>>
    /\ ec_hash_algo = "Sha256" /\ ec_signature = None /\ ec_recovered = None

IdleXpriv ==
    /\ x_node = new(1, Zeros(32), 0, U32(0), None) /\ x_index = U32(0) /\ x_child = None
    /\ x_key_data = <<>>
    /\ x_string = None /\ x_bytes = <<>> /\ x_input = <<>> /\ x_parsed = None

IdleConstruct ==
    /\ x_source = [ok |-> TRUE, buffer |-> <<>>] /\ x_random = None
    /\ x_path = <<>> /\ x_path_result = None

IdleDecode == dec_input = <<>> /\ dec_result = None
IdleReadVarInt == vu_input = <<>> /\ vu_result = None
IdleDecompress == dv_input = 0 /\ dv_output = None
IdleVerify ==
    /\ vf_public_key = Generator /\ vf_message = <<>> /\ vf_hash_algo = "Sha256"
    /\ vf_signature = [r |-> 1, s |-> 1] /\ vf_reverse_k = FALSE /\ vf_result = None
    /\ vf_calls = <<>>
IdlePar ==
    /\ par_node = <<>> /\ par_tasks = <<>> /\ par_at = <<>> /\ par_local = <<>>
    /\ par_result = <<>>
IdleRaw == raw_input = <<>> /\ raw_op = "" /\ raw_result = None
IdlePushData == pd_node = <<>> /\ pd_encoded = None
IdleMore == IdlePar /\ IdleRaw /\ IdlePushData
IdlePure == IdleDecode /\ IdleReadVarInt /\ IdleDecompress /\ IdleVerify /\ IdleMore

(* ---- Opcode conversion: OpCodes::from(from_value), then u8::from of it ---- *)

MaxValue == 300

InitOpCodes ==
    /\ pc = "start"
    /\ from_value \in 0..MaxValue
    /\ opcode = None /\ into_value = None
    /\ IdleScript /\ IdleVarInt /\ IdleEcdsa /\ IdleXpriv /\ IdleConstruct /\ IdlePure

ConvertFrom ==
    /\ pc = "start"
    /\ opcode' = Some(From(from_value))
    /\ pc' = "converted"
    /\ UNCHANGED <<from_value, into_value, scriptVars, varintVars, ecdsaVars, xprivVars, constructVars, decodeVars, readVarIntVars,
                   decompressVars, verifyVars, parVars, rawVars, pushDataVars>>

ConvertInto ==
    /\ pc = "converted"
    /\ into_value' = Some(AsU8(Unwrap(opcode)))
    /\ pc' = "done"
    /\ UNCHANGED <<from_value, opcode, scriptVars, varintVars, ecdsaVars, xprivVars, constructVars, decodeVars, readVarIntVars,
                   decompressVars, verifyVars, parVars, rawVars, pushDataVars>>

NextOpCodes == ConvertFrom \/ ConvertInto

SpecOpCodes == InitOpCodes /\ [][NextOpCodes]_vars

(* ---- Script round trip: to_vec of every node, then from_bytes ---- *)

MaxData == 1
MaxScriptLen == 2
MaxDepth == 2

DataBytes == {0, 104}
LeafCodes == {"OP_0", "OP_DUP"}
IfCodes   == {"OP_IF", "OP_NOTIF"}

(* The nodes without branches: an opcode that is no push opcode, a direct  *)
(* push of 1..75 bytes, a PushData whose length fits its length field.     *)
Leaves ==
    {OpCodeBit(c) : c \in LeafCodes}
        \cup {PushBit(d) : d \in SeqsOf(DataBytes, 1, MaxData)}
        \cup {PushDataBit(c, d) : c \in PushDataCodes, d \in SeqsOf(DataBytes, 0, MaxData)}

BranchLeaves == {OpCodeBit("OP_DUP"), PushBit(<<104>>)}
FailBranches ==
    {None, Some(<<>>), Some(<<OpCodeBit("OP_DUP")>>), Some(<<IfBit("OP_IF", <<>>, None)>>)}

RECURSIVE IfNodes(_)
(* The If nodes nested at most `depth` deep. *)
IfNodes(depth) ==
    IF depth = 0 THEN {}
    ELSE {IfBit(c, p, f) :
            c \in IfCodes,
            p \in {<<>>} \cup {<<n>> : n \in BranchLeaves \cup IfNodes(depth - 1)},
            f \in FailBranches}

Scripts ==
    SeqsOf(Leaves, 0, MaxScriptLen)
        \cup {<<i>> : i \in IfNodes(MaxDepth)}
        \cup {<<i, l>> : i \in IfNodes(MaxDepth), l \in BranchLeaves}
        \cup {<<l, i>> : l \in BranchLeaves, i \in IfNodes(MaxDepth)}

InitScript ==
    /\ pc = "start"
    /\ script \in Scripts
    /\ encoded = <<>> /\ rest = <<>> /\ decoded = <<>>
    /\ asm_extended = FALSE /\ asm_rendered = None
    /\ IdleOp /\ IdleVarInt /\ IdleEcdsa /\ IdleXpriv /\ IdleConstruct /\ IdlePure

(* encode: the to_vec of each node, concatenated *)
Encode ==
    /\ pc = "start"
    /\ encoded' = to_vec_all(script)
    /\ rest' = encoded'
    /\ decoded' = <<>>
    /\ pc' = "decode"
    /\ UNCHANGED <<script, asm_extended, asm_rendered, opVars, varintVars, ecdsaVars, xprivVars, constructVars, decodeVars, readVarIntVars,
                   decompressVars, verifyVars, parVars, rawVars, pushDataVars>>

(* decode: one more from_bytes on what is left of the input *)
DecodeStep ==
    /\ pc = "decode"
    /\ rest # <<>>
    /\ LET r == from_bytes_cursor(rest) IN
       IF r.res.ok
       THEN /\ decoded' = Append(decoded, r.res.v)
            /\ rest' = SubSeq(rest, r.pos + 1, Len(rest))
            /\ pc' = "decode"
       ELSE /\ pc' = "failed"
            /\ UNCHANGED <<decoded, rest>>
    /\ UNCHANGED <<script, encoded, asm_extended, asm_rendered, opVars, varintVars, ecdsaVars, xprivVars, constructVars, decodeVars, readVarIntVars,
                   decompressVars, verifyVars, parVars, rawVars, pushDataVars>>

DecodeEnd ==
    /\ pc = "decode"
    /\ rest = <<>>
    /\ pc' = "done"
    /\ UNCHANGED <<scriptVars, opVars, varintVars, ecdsaVars, xprivVars, constructVars, decodeVars, readVarIntVars,
                   decompressVars, verifyVars, parVars, rawVars, pushDataVars>>

NextScript == Encode \/ DecodeStep \/ DecodeEnd

SpecScript == InitScript /\ [][NextScript]_vars

(* ---- CompactSize: the encoders, and read_varint on what was written ---- *)

LowLimbs  == {0, 1, 75, 76, 252, 253, 254, 255, 256, 65535}
HighLimbs == {0, 1, 65535}
VarInts ==
    {<<l0, l1, l2, l3>> : l0 \in LowLimbs, l1 \in HighLimbs, l2 \in HighLimbs, l3 \in HighLimbs}

InitVarInt ==
    /\ pc = "start"
    /\ input_varint \in VarInts
    /\ cursor = Cursor(<<>>) /\ cursor_read = None
    /\ vec_buf = <<>> /\ varint_bytes = None /\ util_bytes = None
    /\ pushdata_opcode = None /\ vec_read = None
    /\ IdleOp /\ IdleScript /\ IdleEcdsa /\ IdleXpriv /\ IdleConstruct /\ IdlePure

(* cursor.write_varint(input_varint) on a new Cursor *)
CursorWriteVarint ==
    /\ cursor.inner = <<>>
    /\ cursor' = cursor_write_varint(cursor, input_varint).cur
    /\ UNCHANGED <<pc, pushdata_opcode, input_varint, cursor_read, vec_buf, varint_bytes, util_bytes, vec_read, opVars, scriptVars, ecdsaVars, xprivVars, constructVars, decodeVars, readVarIntVars,
                   decompressVars, verifyVars, parVars, rawVars, pushDataVars>>

(* read_varint on a Cursor over the written bytes, from their start *)
CursorReadVarint ==
    /\ cursor.inner # <<>>
    /\ cursor_read = None
    /\ LET r == cursor_read_varint(Cursor(cursor.inner)) IN
         /\ cursor' = r.cur
         /\ cursor_read' = Some(r.res)
    /\ UNCHANGED <<pc, pushdata_opcode, input_varint, vec_buf, varint_bytes, util_bytes, vec_read, opVars, scriptVars, ecdsaVars, xprivVars, constructVars, decodeVars, readVarIntVars,
                   decompressVars, verifyVars, parVars, rawVars, pushDataVars>>

(* vec_buf.write_varint(input_varint) on an empty Vec *)
VecWriteVarint ==
    /\ vec_buf = <<>>
    /\ vec_buf' = vec_write_varint(vec_buf, input_varint).vec
    /\ UNCHANGED <<pc, pushdata_opcode, input_varint, cursor, cursor_read, varint_bytes, util_bytes, vec_read, opVars, scriptVars, ecdsaVars, xprivVars, constructVars, decodeVars, readVarIntVars,
                   decompressVars, verifyVars, parVars, rawVars, pushDataVars>>

(* vec_buf.read_varint() on the vector write_varint filled *)
VecReadVarint ==
    /\ vec_buf # <<>>
    /\ vec_read = None
    /\ \E overflow_checks \in BOOLEAN :
         vec_read' = Some(vec_read_varint(vec_buf, overflow_checks))
    /\ UNCHANGED <<pc, pushdata_opcode, input_varint, cursor, cursor_read, vec_buf, varint_bytes,
                   util_bytes, opVars, scriptVars, ecdsaVars, xprivVars, constructVars,
                   decodeVars, readVarIntVars, decompressVars, verifyVars, parVars, rawVars,
                   pushDataVars>>

GetVarintBytes ==
    /\ varint_bytes = None
    /\ varint_bytes' = Some(get_varint_bytes(input_varint))
    /\ UNCHANGED <<pc, pushdata_opcode, input_varint, cursor, cursor_read, vec_buf, util_bytes, vec_read, opVars, scriptVars, ecdsaVars, xprivVars, constructVars, decodeVars, readVarIntVars,
                   decompressVars, verifyVars, parVars, rawVars, pushDataVars>>

GetBytes ==
    /\ util_bytes = None
    /\ util_bytes' = Some(get_bytes(input_varint))
    /\ UNCHANGED <<pc, pushdata_opcode, input_varint, cursor, cursor_read, vec_buf, varint_bytes, vec_read, opVars, scriptVars, ecdsaVars, xprivVars, constructVars, decodeVars, readVarIntVars,
                   decompressVars, verifyVars, parVars, rawVars, pushDataVars>>

(* VarInt::get_pushdata_opcode(input_varint) *)
GetPushdataOpcode ==
    /\ pushdata_opcode = None
    /\ pushdata_opcode' = Some(get_pushdata_opcode(input_varint))
    /\ UNCHANGED <<pc, input_varint, cursor, cursor_read, vec_buf, varint_bytes, util_bytes, vec_read, opVars, scriptVars, ecdsaVars, xprivVars, constructVars, decodeVars, readVarIntVars,
                   decompressVars, verifyVars, parVars, rawVars, pushDataVars>>

NextVarInt ==
    \/ CursorWriteVarint \/ CursorReadVarint \/ VecWriteVarint \/ GetVarintBytes \/ GetBytes
    \/ GetPushdataOpcode \/ VecReadVarint

SpecVarInt == InitVarInt /\ [][NextVarInt]_vars

(* ---- ECDSA: sign_with_k, then private_key_from_signature_k ---- *)

Messages == {<<>>, <<0>>, <<72, 101, 108, 108, 111>>, <<255, 255>>}
SigningHashes == {"Sha256", "Sha256d"}

InitEcdsa ==
    /\ pc = "start"
    /\ ec_private_key \in Scalars
    /\ ec_ephemeral_key \in Scalars
    /\ ec_message \in Messages
    /\ ec_hash_algo \in SigningHashes
    /\ ec_signature = None /\ ec_recovered = None
    /\ IdleOp /\ IdleScript /\ IdleVarInt /\ IdleXpriv /\ IdleConstruct /\ IdlePure

SignWithK ==
    /\ pc = "start"
    /\ ec_signature' =
          Some(sign_with_k(ec_private_key, ec_ephemeral_key, ec_message, ec_hash_algo))
    /\ pc' = "signed"
    /\ UNCHANGED <<ec_private_key, ec_ephemeral_key, ec_message, ec_hash_algo, ec_recovered,
                   opVars, scriptVars, varintVars, xprivVars, constructVars, decodeVars, readVarIntVars,
                   decompressVars, verifyVars, parVars, rawVars, pushDataVars>>

(* the test's `.unwrap()` of the signature, then the recovery *)
PrivateKeyFromSignatureK ==
    /\ pc = "signed"
    /\ Unwrap(ec_signature).ok
    /\ ec_recovered' =
          Some(private_key_from_signature_k(Unwrap(ec_signature).v,
                   public_key_of(ec_private_key), ec_ephemeral_key, ec_message, ec_hash_algo))
    /\ pc' = "done"
    /\ UNCHANGED <<ec_private_key, ec_ephemeral_key, ec_message, ec_hash_algo, ec_signature,
                   opVars, scriptVars, varintVars, xprivVars, constructVars, decodeVars, readVarIntVars,
                   decompressVars, verifyVars, parVars, rawVars, pushDataVars>>

NextEcdsa == SignWithK \/ PrivateKeyFromSignatureK

SpecEcdsa == InitEcdsa /\ [][NextEcdsa]_vars


(* ---- Extended private keys: a node is built, then either derived from   *)
(* ---- or written as a string that is read back                      ---- *)

Depths       == {0, 1, 9, 10, 99, 100, 255}
NodeIndices  == {U32(0), U32(9), U32(10), <<57600, 1525>>, <<0, 32768>>, <<65535, 65535>>}
ChildIndices == {U32(0), U32(1), <<65535, 32767>>, <<0, 32768>>, <<1, 32768>>}
PrivateKeys  == {1, 17, CurveN - 1}
ChainCodes   == {Stretch(7, 32)}
OddChainCodes == {Stretch(7, 31), Stretch(7, 33)}
Fingerprints == {None, Some(<<222, 173, 190, 239>>)}

InitXpriv ==
    /\ pc = "start"
    /\ x_node \in {new(private_key, chain_code, depth, index, parent_fingerprint) :
                       private_key \in PrivateKeys, chain_code \in ChainCodes,
                       depth \in Depths, index \in NodeIndices,
                       parent_fingerprint \in Fingerprints}
                  \cup {new(private_key, chain_code, 0, U32(0), None) :
                       private_key \in PrivateKeys, chain_code \in OddChainCodes}
    /\ x_index = U32(0) /\ x_child = None /\ x_key_data = <<>>
    /\ x_string = None /\ x_bytes = <<>> /\ x_input = <<>> /\ x_parsed = None
    /\ IdleOp /\ IdleScript /\ IdleVarInt /\ IdleEcdsa /\ IdleConstruct /\ IdlePure

XprivDerive ==
    /\ pc = "start"
    /\ \E index \in ChildIndices, overflow_checks \in BOOLEAN :
          /\ x_index' = index
          /\ x_key_data' = derive_key_data(x_node, index)
          /\ x_child' = Some(derive_finish(x_node, index, derive_key_data(x_node, index),
                                           overflow_checks))
    /\ pc' = "derived"
    /\ UNCHANGED <<x_node, x_string, x_bytes, x_input, x_parsed,
                   opVars, scriptVars, varintVars, ecdsaVars, constructVars, decodeVars, readVarIntVars,
                   decompressVars, verifyVars, parVars, rawVars, pushDataVars>>

XprivToString ==
    /\ pc = "start"
    /\ LET out == to_string_impl(x_node)
       IN  x_string' = Some(out.res) /\ x_bytes' = out.bytes
    /\ pc' = "written"
    /\ UNCHANGED <<x_node, x_index, x_child, x_key_data, x_input, x_parsed,
                   opVars, scriptVars, varintVars, ecdsaVars, constructVars, decodeVars, readVarIntVars,
                   decompressVars, verifyVars, parVars, rawVars, pushDataVars>>

(* The strings read back: the one written, the one that differs from it   *)
(* in the last byte of the checksum, the one a byte shorter and the one a  *)
(* byte longer.                                                            *)
WrongChecksum(bytes) == [bytes EXCEPT ![Len(bytes)] = (@ + 1) % 256]
OneByteLess(bytes)   == SubSeq(bytes, 1, Len(bytes) - 1)
OneByteMore(bytes)   == bytes \o <<0>>

XprivFromString ==
    /\ pc = "written"
    /\ Unwrap(x_string).ok
    /\ \E input \in {Unwrap(x_string).v, bs58_encode(WrongChecksum(x_bytes)),
                      bs58_encode(OneByteLess(x_bytes)), bs58_encode(OneByteMore(x_bytes))} :
          /\ x_input' = input
          /\ x_parsed' = Some(from_string_impl(input))
    /\ pc' = "read"
    /\ UNCHANGED <<x_node, x_index, x_child, x_key_data, x_string, x_bytes,
                   opVars, scriptVars, varintVars, ecdsaVars, constructVars, decodeVars, readVarIntVars,
                   decompressVars, verifyVars, parVars, rawVars, pushDataVars>>

NextXpriv == XprivDerive \/ XprivToString \/ XprivFromString

SpecXpriv == InitXpriv /\ [][NextXpriv]_vars


(* ---- Extended private keys made without a parent: from_random, and  ---- *)
(* ---- derive_from_path on the text of a path                         ---- *)

SeedNumbers == {0, 1, 2, 3, 5, 8}
SeedLen == 64

(* What getrandom can do with the buffer: fill it and succeed, or fail     *)
(* and leave it as it was or partly filled.                                *)
Sources ==
    {[ok |-> TRUE, buffer |-> Stretch(s, SeedLen)] : s \in SeedNumbers}
      \cup {[ok |-> FALSE, buffer |-> Zeros(SeedLen)]}
      \cup {[ok |-> FALSE, buffer |-> SubSeq(Stretch(s, SeedLen), 1, 32) \o Zeros(32)] :
                s \in SeedNumbers}

PathPrefixes == {<<>>, <<"m">>, <<"M">>}
PathNumbers  == {<<"0">>, <<"1">>, <<"4", "4">>}
PathSuffixes == {<<>>, <<"'">>, <<"h">>}
PathSegments == {<<"/">> \o number \o suffix : number \in PathNumbers, suffix \in PathSuffixes}
Paths ==
    {prefix : prefix \in PathPrefixes}
      \cup {prefix \o a : prefix \in PathPrefixes, a \in PathSegments}
      \cup {prefix \o a \o b : prefix \in PathPrefixes, a \in PathSegments, b \in PathSegments}

InitConstruct ==
    /\ pc = "start"
    /\ x_source \in Sources /\ x_random = None
    /\ x_path \in Paths /\ x_path_result = None
    /\ IdleOp /\ IdleScript /\ IdleVarInt /\ IdleEcdsa /\ IdleXpriv /\ IdlePure

FromRandom ==
    /\ pc = "start"
    /\ x_random' = Some(from_random_impl(x_source))
    /\ pc' = "made"
    /\ UNCHANGED <<x_source, x_path, x_path_result,
                   opVars, scriptVars, varintVars, ecdsaVars, xprivVars, decodeVars, readVarIntVars,
                   decompressVars, verifyVars, parVars, rawVars, pushDataVars>>

DeriveFromPath ==
    /\ pc = "start"
    /\ x_path_result' = Some(derive_from_path(x_path))
    /\ pc' = "walked"
    /\ UNCHANGED <<x_source, x_random, x_path,
                   opVars, scriptVars, varintVars, ecdsaVars, xprivVars, decodeVars, readVarIntVars,
                   decompressVars, verifyVars, parVars, rawVars, pushDataVars>>

NextConstruct == FromRandom \/ DeriveFromPath

SpecConstruct == InitConstruct /\ [][NextConstruct]_vars


(* ---- Script decoding of arbitrary bytes: one ScriptBit::from_bytes  ---- *)

MaxPayload == 3

(* What the input starts with: nothing, a direct-push length byte, a       *)
(* PUSHDATA opcode with all, part or none of its length field, other       *)
(* opcodes, and a byte that is no opcode.                                  *)
DecodeHeaders ==
    {<<>>, <<0>>, <<1>>, <<2>>, <<4>>, <<75>>,
     <<76>>, <<76, 0>>, <<76, 1>>, <<76, 4>>,
     <<77>>, <<77, 2>>, <<77, 2, 0>>, <<77, 4, 0>>, <<77, 0, 1>>,
     <<78>>, <<78, 2>>, <<78, 2, 0, 0, 0>>, <<78, 4, 0, 0, 0>>,
     <<118>>, <<200>>}
(* What follows: the first bytes of a pattern whose bytes, read as the     *)
(* rest of a length field, declare a short length.                         *)
DataPatterns == {<<3, 0, 0, 0, 5, 6, 7, 8>>, <<1, 0, 0, 0, 9, 9, 9, 9>>}
Payloads == {SubSeq(pattern, 1, n) : pattern \in DataPatterns, n \in 0..MaxPayload}

InitDecode ==
    /\ pc = "start"
    /\ dec_input \in {header \o payload :
                         header \in DecodeHeaders,
                         payload \in Payloads}
    /\ dec_result = None
    /\ IdleOp /\ IdleScript /\ IdleVarInt /\ IdleEcdsa /\ IdleXpriv /\ IdleConstruct
    /\ IdleReadVarInt /\ IdleDecompress /\ IdleVerify /\ IdleMore

FromBytes ==
    /\ pc = "start"
    /\ dec_result' = Some(from_bytes(dec_input))
    /\ pc' = "decoded"
    /\ UNCHANGED <<dec_input, opVars, scriptVars, varintVars, ecdsaVars, xprivVars,
                   constructVars, readVarIntVars, decompressVars, verifyVars, parVars, rawVars, pushDataVars>>

NextDecode == FromBytes

SpecDecode == InitDecode /\ [][NextDecode]_vars


(* ---- VarIntUtil::read_var_int on a byte sequence ---- *)

MaxRepeat == 9
FirstBytes  == {0, 1, 127, 128, 129, 255}
MiddleBytes == {128, 254, 255}
LastBytes   == {0, 127, 128, 255}
Repeat(byte, count) == [i \in 1..count |-> byte]
VarIntInputs ==
    {<<>>}
    \cup {(<<first>> \o Repeat(middle, count)) \o last :
             first \in FirstBytes, middle \in MiddleBytes, count \in 0..MaxRepeat,
             last \in {<<>>} \cup {<<byte>> : byte \in LastBytes}}

(* every input of up to MaxShort bytes over ShortBytes *)
MaxShort == 3
ShortBytes == {0, 127, 128, 255}
ShortInputs == SeqsOf(ShortBytes, 0, MaxShort)
ReadInputs == VarIntInputs \cup ShortInputs

InitReadVarInt ==
    /\ pc = "start"
    /\ vu_input \in ReadInputs
    /\ vu_result = None
    /\ IdleOp /\ IdleScript /\ IdleVarInt /\ IdleEcdsa /\ IdleXpriv /\ IdleConstruct
    /\ IdleDecode /\ IdleDecompress /\ IdleVerify /\ IdleMore

(* VarIntUtil::read_var_int::<_, u64>(&mut Cursor::new(vu_input)) *)
ReadVarInt ==
    /\ pc = "start"
    /\ \E overflow_checks \in BOOLEAN :
         vu_result' = Some(read_var_int(vu_input, overflow_checks))
    /\ pc' = "read"
    /\ UNCHANGED <<vu_input, opVars, scriptVars, varintVars, ecdsaVars, xprivVars,
                   constructVars, decodeVars, decompressVars, verifyVars, parVars, rawVars, pushDataVars>>

NextReadVarInt == ReadVarInt

SpecReadVarInt == InitReadVarInt /\ [][NextReadVarInt]_vars

(* ---- VarIntUtil::decompress_value on codes and on compressed amounts ---- *)

MaxCode == 20
MaxExponent == 9
AmountLimit == 2000000000
Mantissas == {1, 2, 3, 4, 5, 6, 7, 8, 9, 11, 19, 21, 99, 101, 12345, 214748}

(* the amounts mantissa * 10^k, k up to MaxExponent, that stay at or below AmountLimit *)
RECURSIVE Scaled(_, _)
Scaled(v, k) ==
    IF k = 0 \/ v > AmountLimit \div 10 THEN {v} ELSE {v} \cup Scaled(v * 10, k - 1)

Amounts == {0} \cup UNION {Scaled(mantissa, MaxExponent) : mantissa \in Mantissas}

(* The reference compression of an amount: strip up to 9 trailing zeros     *)
(* into e; below 9 peel the last digit d.                                   *)
RECURSIVE strip_zeros(_, _)
strip_zeros(n, e) ==
    IF n % 10 = 0 /\ e < 9 THEN strip_zeros(n \div 10, e + 1) ELSE [n |-> n, e |-> e]

compress(v) ==
    IF v = 0 THEN 0
    ELSE LET s == strip_zeros(v, 0) IN
         IF s.e < 9
         THEN LET d == s.n % 10
                  n == s.n \div 10
              IN  1 + (n * 9 + d - 1) * 10 + s.e
         ELSE 1 + (s.n - 1) * 10 + 9

Codes == (0..MaxCode) \cup {compress(v) : v \in Amounts}

InitDecompress ==
    /\ pc = "start"
    /\ dv_input \in Codes
    /\ dv_output = None
    /\ IdleOp /\ IdleScript /\ IdleVarInt /\ IdleEcdsa /\ IdleXpriv /\ IdleConstruct
    /\ IdleDecode /\ IdleReadVarInt /\ IdleVerify /\ IdleMore

(* VarIntUtil::decompress_value(dv_input) *)
DecompressValue ==
    /\ pc = "start"
    /\ dv_output' = Some(decompress_value(dv_input))
    /\ pc' = "decompressed"
    /\ UNCHANGED <<dv_input, opVars, scriptVars, varintVars, ecdsaVars, xprivVars,
                   constructVars, decodeVars, readVarIntVars, verifyVars, parVars, rawVars, pushDataVars>>

NextDecompress == DecompressValue

SpecDecompress == InitDecompress /\ [][NextDecompress]_vars

(* ---- ECDSA::verify_digest on a key, a message and a signature ---- *)

(* an x coordinate the curve has no point for, and a key holding it *)
OffCurveX == CHOOSE x \in 0..(FieldP - 1) :
                 \A y \in 0..(FieldP - 1) : (y * y) % FieldP # (x * x * x + 7) % FieldP
VerifyKeys == {public_key_of(private_key) : private_key \in PrivateKeys} \cup {<<OffCurveX, 0>>}
Signatures == {[r |-> r, s |-> s] : r \in Scalars, s \in Scalars}

InitVerify ==
    /\ pc = "start"
    /\ vf_public_key \in VerifyKeys
    /\ vf_message \in Messages
    /\ vf_hash_algo \in SigningHashes
    /\ vf_signature \in Signatures
    /\ vf_reverse_k = FALSE
    /\ vf_result = None
    /\ vf_calls = <<>>
    /\ IdleOp /\ IdleScript /\ IdleVarInt /\ IdleEcdsa /\ IdleXpriv /\ IdleConstruct
    /\ IdleDecode /\ IdleReadVarInt /\ IdleDecompress /\ IdleMore

(* ECDSA::verify_digest, which hands its arguments to verify_digest_impl:  *)
(* verify_digest(vf_message, vf_public_key, vf_signature, vf_hash_algo, reverse_k) *)
VerifyDigest ==
    /\ pc = "start"
    /\ \E reverse_k \in BOOLEAN :
         /\ vf_reverse_k' = reverse_k
         /\ vf_result' = Some(verify_digest_impl(vf_message, vf_public_key, vf_signature,
                                                 vf_hash_algo, reverse_k))
         /\ vf_calls' = verify_digest_run(vf_message, vf_public_key, vf_signature,
                                          vf_hash_algo, reverse_k).calls
    /\ pc' = "verified"
    /\ UNCHANGED <<vf_public_key, vf_message, vf_hash_algo, vf_signature, opVars, scriptVars,
                   varintVars, ecdsaVars, xprivVars, constructVars, decodeVars,
                   readVarIntVars, decompressVars, parVars, rawVars, pushDataVars>>

NextVerify == VerifyDigest

SpecVerify == InitVerify /\ [][NextVerify]_vars

(* ---- derive, sign_with_k and private_key_from_signature_k on threads ---- *)

Workers == 2
Threads == 1..Workers
ParNodes ==
    {new(1, Stretch(7, 32), 0, U32(0), None), new(17, Stretch(7, 32), 9, U32(1), None)}
DeriveTasks == {[op |-> "derive", index |-> index] : index \in ChildIndices}
SignTasks ==
    {[op |-> "sign", private_key |-> private_key, ephemeral_key |-> ephemeral_key,
      message |-> <<72, 101, 108, 108, 111>>, hash_algo |-> "Sha256d"] :
         private_key \in {1, 17}, ephemeral_key \in {3, 5}}

InitParallel ==
    /\ pc = "start"
    /\ par_node \in ParNodes
    /\ par_tasks \in [Threads -> DeriveTasks \cup SignTasks]
    /\ par_at = [thread \in Threads |-> "start"]
    /\ par_local = [thread \in Threads |-> None]
    /\ par_result = [thread \in Threads |-> None]
    /\ IdleOp /\ IdleScript /\ IdleVarInt /\ IdleEcdsa /\ IdleXpriv /\ IdleConstruct
    /\ IdleDecode /\ IdleReadVarInt /\ IdleDecompress /\ IdleVerify /\ IdleRaw /\ IdlePushData

ParRest ==
    <<pc, opVars, scriptVars, varintVars, ecdsaVars, xprivVars, constructVars, decodeVars,
      readVarIntVars, decompressVars, verifyVars, rawVars, pushDataVars>>

(* par_node.derive_impl(index), lines 178-204: the thread builds key_data *)
ParDeriveKeyData(thread) ==
    /\ par_at[thread] = "start" /\ par_tasks[thread].op = "derive"
    /\ par_local' = [par_local EXCEPT
                        ![thread] = Some(derive_key_data(par_node, par_tasks[thread].index))]
    /\ par_at' = [par_at EXCEPT ![thread] = "keyed"]
    /\ UNCHANGED <<par_node, par_tasks, par_result, ParRest>>

(* lines 206-251: the thread goes on from its key_data to the child *)
ParDeriveFinish(thread) ==
    /\ par_at[thread] = "keyed"
    /\ \E overflow_checks \in BOOLEAN :
         par_result' =
             [par_result EXCEPT
                 ![thread] = Some(derive_finish(par_node, par_tasks[thread].index,
                                                Unwrap(local_of(par_local, thread)),
                                                overflow_checks))]
    /\ par_at' = [par_at EXCEPT ![thread] = "done"]
    /\ UNCHANGED <<par_node, par_tasks, par_local, ParRest>>

(* ECDSA::sign_with_k in the closure of sign_with_k_test_par *)
ParSign(thread) ==
    /\ par_at[thread] = "start" /\ par_tasks[thread].op = "sign"
    /\ LET task == par_tasks[thread]
           signature == sign_with_k(task.private_key, task.ephemeral_key, task.message,
                                    task.hash_algo)
       IN  /\ par_local' = [par_local EXCEPT ![thread] = Some(signature)]
           /\ IF signature.ok
              THEN /\ par_at' = [par_at EXCEPT ![thread] = "signed"]
                   /\ UNCHANGED par_result
              ELSE /\ par_at' = [par_at EXCEPT ![thread] = "done"]
                   /\ par_result' = [par_result EXCEPT ![thread] = Some(signature)]
    /\ UNCHANGED <<par_node, par_tasks, ParRest>>

(* ECDSA::private_key_from_signature_k on the signature the thread made *)
ParRecover(thread) ==
    /\ par_at[thread] = "signed"
    /\ LET task == par_tasks[thread] IN
         par_result' =
             [par_result EXCEPT
                 ![thread] = Some(private_key_from_signature_k(
                                      Unwrap(local_of(par_local, thread)).v,
                                      public_key_of(task.private_key), task.ephemeral_key,
                                      task.message, task.hash_algo))]
    /\ par_at' = [par_at EXCEPT ![thread] = "done"]
    /\ UNCHANGED <<par_node, par_tasks, par_local, ParRest>>

NextParallel ==
    \E thread \in Threads :
        \/ ParDeriveKeyData(thread) \/ ParDeriveFinish(thread)
        \/ ParSign(thread) \/ ParRecover(thread)

SpecParallel == InitParallel /\ [][NextParallel]_vars

(* ---- The decoding operations on external bytes ---- *)

MaxRaw == 3
RawBytes == {0, 1, 57, 76, 77, 78, 128, 253, 255}
RawInputs ==
    SeqsOf(RawBytes, 0, MaxRaw)
        \cup {<<128, 254, 254, 254, 254, 254, 254, 254, 254, 255>>,
              <<255, 1, 0, 0, 0, 0, 0, 0, 0>>, <<254, 1, 0, 0, 0>>}

InitRaw ==
    /\ pc = "start"
    /\ raw_input \in RawInputs
    /\ raw_op = "" /\ raw_result = None
    /\ IdleOp /\ IdleScript /\ IdleVarInt /\ IdleEcdsa /\ IdleXpriv /\ IdleConstruct
    /\ IdleDecode /\ IdleReadVarInt /\ IdleDecompress /\ IdleVerify /\ IdlePar /\ IdlePushData

RawRest ==
    <<raw_input, opVars, scriptVars, varintVars, ecdsaVars, xprivVars, constructVars,
      decodeVars, readVarIntVars, decompressVars, verifyVars, parVars, pushDataVars>>

(* ScriptBit::from_bytes(&raw_input) *)
RawFromBytes ==
    /\ pc = "start"
    /\ raw_op' = "ScriptBit::from_bytes"
    /\ raw_result' = Some(from_bytes(raw_input))
    /\ pc' = "decoded"
    /\ UNCHANGED RawRest

(* Cursor::new(raw_input).read_varint() *)
RawCursorReadVarint ==
    /\ pc = "start"
    /\ raw_op' = "read_varint"
    /\ raw_result' = Some(cursor_read_varint(Cursor(raw_input)).res)
    /\ pc' = "decoded"
    /\ UNCHANGED RawRest

(* VarIntUtil::read_var_int::<_, u64>(&mut Cursor::new(raw_input)) *)
RawReadVarInt ==
    /\ pc = "start"
    /\ raw_op' = "VarIntUtil::read_var_int"
    /\ \E overflow_checks \in BOOLEAN :
         raw_result' = Some(read_var_int(raw_input, overflow_checks).res)
    /\ pc' = "decoded"
    /\ UNCHANGED RawRest

(* VarIntUtil::read_bytes(raw_input) *)
RawReadBytes ==
    /\ pc = "start"
    /\ raw_op' = "VarIntUtil::read_bytes"
    /\ raw_result' = Some(read_bytes(raw_input))
    /\ pc' = "decoded"
    /\ UNCHANGED RawRest

(* ExtendedPrivateKey::from_string: each byte of raw_input is a character,  *)
(* those below 58 the characters of the Base58 alphabet                     *)
RawFromString ==
    /\ pc = "start"
    /\ raw_op' = "ExtendedPrivateKey::from_string"
    /\ raw_result' = Some(from_string_impl(raw_input))
    /\ pc' = "decoded"
    /\ UNCHANGED RawRest

NextRaw ==
    RawFromBytes \/ RawCursorReadVarint \/ RawReadVarInt \/ RawReadBytes \/ RawFromString

SpecRaw == InitRaw /\ [][NextRaw]_vars

(* ---- ScriptBit::to_vec of a PushData node of any data length ---- *)

MaxPushLen == 260

InitPushData ==
    /\ pc = "start"
    /\ pd_node \in {PushDataBit(code, [i \in 1..len |-> i % 256]) :
                       code \in PushDataCodes, len \in 0..MaxPushLen}
    /\ pd_encoded = None
    /\ IdleOp /\ IdleScript /\ IdleVarInt /\ IdleEcdsa /\ IdleXpriv /\ IdleConstruct
    /\ IdleDecode /\ IdleReadVarInt /\ IdleDecompress /\ IdleVerify /\ IdlePar /\ IdleRaw

(* pd_node.to_vec() *)
PushDataToVec ==
    /\ pc = "start"
    /\ pd_encoded' = Some(to_vec(pd_node))
    /\ pc' = "encoded"
    /\ UNCHANGED <<pd_node, opVars, scriptVars, varintVars, ecdsaVars, xprivVars,
                   constructVars, decodeVars, readVarIntVars, decompressVars, verifyVars,
                   parVars, rawVars>>

NextPushData == PushDataToVec

SpecPushData == InitPushData /\ [][NextPushData]_vars

(* ---- ScriptBit::to_asm_string_impl of If nodes ---- *)

MaxPass == 2
AsmLeaves ==
    {OpCodeBit("OP_0"), OpCodeBit("OP_DUP"), PushBit(<<104>>), PushBit(<<>>),
     PushDataBit("OP_PUSHDATA1", <<>>)}
AsmInner ==
    {IfBit("OP_IF", pass, fail) :
        pass \in SeqsOf(AsmLeaves, 0, 1),
        fail \in {None, Some(<<>>)} \cup {Some(<<leaf>>) : leaf \in AsmLeaves}}
AsmNodes ==
    {IfBit(code, pass, fail) :
        code \in IfCodes,
        pass \in SeqsOf(AsmLeaves, 0, MaxPass) \cup {<<inner>> : inner \in AsmInner},
        fail \in {None, Some(<<>>)}
                 \cup {Some(<<node>>) : node \in AsmLeaves \cup AsmInner}}

InitAsm ==
    /\ pc = "start"
    /\ script \in {<<node>> : node \in AsmNodes}
    /\ encoded = <<>> /\ rest = <<>> /\ decoded = <<>>
    /\ asm_extended = FALSE /\ asm_rendered = None
    /\ IdleOp /\ IdleVarInt /\ IdleEcdsa /\ IdleXpriv /\ IdleConstruct /\ IdlePure

(* script[1].to_asm_string() or script[1].to_extended_asm_string() *)
ToAsmString ==
    /\ pc = "start"
    /\ \E extended \in BOOLEAN :
         /\ asm_extended' = extended
         /\ asm_rendered' = Some(to_asm_string_impl(script[1], extended))
    /\ pc' = "rendered"
    /\ UNCHANGED <<script, encoded, rest, decoded, opVars, varintVars, ecdsaVars, xprivVars,
                   constructVars, decodeVars, readVarIntVars, decompressVars, verifyVars,
                   parVars, rawVars, pushDataVars>>

NextAsm == ToAsmString

SpecAsm == InitAsm /\ [][NextAsm]_vars
-----------------------------------------------------------------------------
(* The claims. *)

RECURSIVE Flatten(_), FlattenAll(_)
(* An If node as the node-by-node decoder gives it into_value: its code, its     *)
(* pass nodes, OP_ELSE and its fail nodes when fail is present, OP_ENDIF,  *)
(* each a node of its own.                                                 *)
Flatten(bit) ==
    IF bit.type = "If"
    THEN <<OpCodeBit(bit.code)>> \o FlattenAll(bit.pass)
            \o (IF IsSome(bit.fail)
                THEN <<OpCodeBit("OP_ELSE")>> \o FlattenAll(Unwrap(bit.fail))
                ELSE <<>>)
            \o <<OpCodeBit("OP_ENDIF")>>
    ELSE <<bit>>
FlattenAll(bits) ==
    IF bits = <<>> THEN <<>> ELSE Flatten(Head(bits)) \o FlattenAll(Tail(bits))

HasIf(bits) == \E i \in 1..Len(bits) : bits[i].type = "If"

(* C1, as stated: decoding the encoding of a sequence of OpCode, Push,     *)
(* PushData and If nodes with from_bytes, node after node until the input  *)
(* is used up, gives into_value the sequence.                                    *)
C1_RoundTripWithIf ==
    pc = "done" => decoded = script

(* C1, amended: the node-by-node decoding never fails and gives into_value the   *)
(* sequence with every If node replaced, recursively, by its flattening;   *)
(* so it gives into_value the sequence itself when it holds no If node.          *)
C1_RoundTripFlat ==
    /\ pc # "failed"
    /\ pc = "done" => /\ decoded = FlattenAll(script)
                      /\ ~HasIf(script) => decoded = script

(* C1: a sequence of an If node and a push has been encoded and decoded. *)
C1_Witness ==
    /\ pc = "done"
    /\ Len(script) = 2
    /\ script[1].type = "If" /\ script[1].pass # <<>> /\ IsSome(script[1].fail)
    /\ script[2].type = "Push"
    /\ decoded = FlattenAll(script)
    /\ Len(decoded) > 4

(* The values the OpCodes enum assigns, and the band of values that        *)
(* OpCodes::from collapses into OP_INVALID_ABOVE.                          *)
EnumValues == {OpCodes[c] : c \in OpCodeNames}
SentinelBand == 186..250

(* C4: OpCodes::from is total on 0..=255, and u8::from(OpCodes::from(v))   *)
(* is v for every v the enum assigns outside the sentinel band.            *)
C4_OpcodeTotality ==
    /\ (pc # "start" /\ from_value <= 255) => (IsSome(opcode) /\ Unwrap(opcode) \in OpCodeNames)
    /\ (pc = "done" /\ from_value \in (EnumValues \ SentinelBand)) => Unwrap(into_value) = from_value

(* C2: read_varint on what write_varint wrote returns the number written   *)
(* and stops behind the last byte written.                                 *)
C2_CompactSizeRoundTrip ==
    IsSome(cursor_read) =>
        /\ Unwrap(cursor_read) = Ok(input_varint)
        /\ cursor.pos = Len(cursor.inner)

(* C2: 2^32, the first number that takes the 8-byte form, was written and  *)
(* read back.                                                              *)
C2_Witness ==
    /\ input_varint = <<0, 0, 1, 0>>
    /\ IsSome(cursor_read)
    /\ cursor.inner = <<255, 0, 0, 0, 0, 1, 0, 0, 0>>
    /\ cursor.pos = 9

(* The CompactSize encoding of the claim: one byte up to 252, 0xfd and 2   *)
(* bytes up to 0xffff, 0xfe and 4 bytes up to 0xffffffff, else 0xff and 8  *)
(* bytes, little-endian.                                                   *)
CompactSize(n) ==
    LET b(l) == <<l % 256, l \div 256>> IN
    IF n[2] = 0 /\ n[3] = 0 /\ n[4] = 0 /\ n[1] <= 252 THEN <<n[1]>>
    ELSE IF n[2] = 0 /\ n[3] = 0 /\ n[4] = 0 THEN <<253>> \o b(n[1])
    ELSE IF n[3] = 0 /\ n[4] = 0 THEN <<254>> \o b(n[1]) \o b(n[2])
    ELSE <<255>> \o b(n[1]) \o b(n[2]) \o b(n[3]) \o b(n[4])

(* C3: every encoder gives the CompactSize encoding, the shortest one, so  *)
(* all of them give the same bytes.                                        *)
C3_EncodersMinimal ==
    /\ cursor.inner # <<>> => cursor.inner = CompactSize(input_varint)
    /\ vec_buf # <<>> => vec_buf = CompactSize(input_varint)
    /\ IsSome(varint_bytes) => Unwrap(varint_bytes) = CompactSize(input_varint)
    /\ IsSome(util_bytes) => Unwrap(util_bytes) = CompactSize(input_varint)

(* C5: the private key recovered from a signature made with a known k,    *)
(* the k and the message is the private key that signed.                   *)
C5_KRecovery ==
    pc = "done" => Unwrap(ec_recovered) = Ok(ec_private_key)

(* C5: a key was recovered from a signature whose r, s, k and d all differ. *)
C5_Witness ==
    /\ pc = "done"
    /\ Unwrap(ec_recovered).ok
    /\ ec_private_key = 17 /\ ec_ephemeral_key = 5
    /\ ec_hash_algo = "Sha256d"
    /\ Unwrap(ec_signature).v.r # Unwrap(ec_signature).v.s


-----------------------------------------------------------------------------
(* Extended private keys *)

(* C6: whenever derive returns a child, the child's depth is the parent's  *)
(* depth plus one and the child's index is the index asked for.            *)
C6_ChildDepthAndIndex ==
    pc = "derived" /\ Unwrap(x_child).ok =>
        /\ Unwrap(x_child).v.depth = x_node.depth + 1
        /\ Unwrap(x_child).v.index = x_index

(* hash160 of the compressed public key of the node, cut to 4 bytes *)
Fingerprint(node) == SubSeq(hash_160(public_key_to_bytes(node.public_key)), 1, 4)

(* C7: the child derive returns names its parent: its parent_fingerprint   *)
(* is the first 4 bytes of the hash160 of the parent's compressed public   *)
(* key.                                                                    *)
C7_ChildFingerprint ==
    pc = "derived" /\ Unwrap(x_child).ok =>
        Unwrap(x_child).v.parent_fingerprint = Fingerprint(x_node)

SameNode(a, b) ==
    /\ a.private_key = b.private_key /\ a.chain_code = b.chain_code
    /\ a.depth = b.depth /\ a.index = b.index
    /\ a.parent_fingerprint = b.parent_fingerprint

(* C8: to_string of a node succeeds, and from_string of what it wrote      *)
(* succeeds with a node of the same private key, chain code, depth, index  *)
(* and parent fingerprint.                                                 *)
C8_TextRoundTrip ==
    /\ pc = "written" => Unwrap(x_string).ok
    /\ pc = "read" /\ x_input = Unwrap(x_string).v =>
          Unwrap(x_parsed).ok /\ SameNode(Unwrap(x_parsed).v, x_node)

(* The 78 bytes of BIP32 for a node, and the 82 with their checksum. *)
Bip32Payload(node) ==
    <<4, 136, 173, 228>> \o <<node.depth>> \o node.parent_fingerprint
        \o to_be_bytes(node.index) \o node.chain_code
        \o <<0>> \o private_key_to_bytes(node.private_key)

Bip32Bytes(node) ==
    Bip32Payload(node) \o SubSeq(sha_256d(Bip32Payload(node)), 1, 4)

(* C9: to_string writes the Base58 form of the 82 bytes of BIP32: version, *)
(* the depth in one byte, the parent fingerprint, the index in 4 bytes     *)
(* big-endian, the chain code, a zero byte, the private key, and the first *)
(* 4 bytes of the double SHA-256 of those 78 bytes.                        *)
C9_StringLayout ==
    pc = "written" => Unwrap(x_string) = Ok(bs58_encode(Bip32Bytes(x_node)))

(* the last 4 bytes are not the checksum of the bytes before them *)
ChecksumMismatch(bytes) ==
    /\ Len(bytes) >= 4
    /\ SubSeq(bytes, Len(bytes) - 3, Len(bytes))
          # SubSeq(sha_256d(SubSeq(bytes, 1, Len(bytes) - 4)), 1, 4)

(* C10: from_string returns an error, and no node, for a string whose last *)
(* 4 bytes are not the checksum of the bytes before them.                  *)
C10_ChecksumValidated ==
    pc = "read" /\ bs58_decode(x_input).ok /\ ChecksumMismatch(bs58_decode(x_input).v) =>
        ~Unwrap(x_parsed).ok


(* C11: from_string returns an error, and no node, for a string whose      *)
(* decoded length is not 82 bytes.                                         *)
C11_LengthChecked ==
    pc = "read" /\ bs58_decode(x_input).ok /\ Len(bs58_decode(x_input).v) # 82 =>
        ~Unwrap(x_parsed).ok

(* The index a path segment names: its decimal number, plus 0x80000000     *)
(* when it ends in ' or h.                                                 *)
DigitOf(char) == CHOOSE d \in 0..9 : <<"0", "1", "2", "3", "4", "5", "6", "7", "8", "9">>[d + 1] = char

RECURSIVE NumberOf(_)
NumberOf(chars) ==
    IF chars = <<>> THEN 0
    ELSE NumberOf(SubSeq(chars, 1, Len(chars) - 1)) * 10 + DigitOf(chars[Len(chars)])

SegmentIndex(segment) ==
    IF segment[Len(segment)] \in {"'", "h"}
    THEN <<NumberOf(SubSeq(segment, 1, Len(segment) - 1)), 32768>>
    ELSE <<NumberOf(segment), 0>>

(* the indices of the path m/i1/.../ik *)
PathIndices(path) ==
    IF Len(path) = 1 THEN <<>>
    ELSE LET segments == split(SubSeq(path, 3, Len(path)), "/")
         IN  [i \in 1..Len(segments) |-> SegmentIndex(segments[i])]

(* derive applied for each index in turn, left to right *)
RECURSIVE DeriveAll(_, _)
DeriveAll(node, indices) ==
    IF indices = <<>> THEN Ok(node)
    ELSE LET child == derive_impl(node, Head(indices), TRUE)
         IN  IF child.ok THEN DeriveAll(child.v, Tail(indices)) ELSE child

(* the nodes a path can start from *)
PathRoots == {from_seed_impl(Stretch(s, SeedLen)).v : s \in {1, 2, 3}}

(* C12: derive_from_path fails on a path that does not begin with "m", and *)
(* on a path m/i1/.../ik returns the node that derive(i1), ..., derive(ik) *)
(* lead to, in that order, a segment ending in ' or h standing for its     *)
(* number plus 0x80000000.                                                 *)
C12_DeriveFromPath ==
    pc = "walked" =>
        IF Len(x_path) = 0 \/ x_path[1] # "m"
        THEN ~Unwrap(x_path_result).ok
        ELSE \E root \in PathRoots : Unwrap(x_path_result) = DeriveAll(root, PathIndices(x_path))

(* C13: from_random returns a randomness-generation error, and no key,     *)
(* when the randomness source fails; it returns a key only from a seed the *)
(* source produced.                                                        *)
C13_RandomnessFailure ==
    pc = "made" /\ ~x_source.ok =>
        Unwrap(x_random) = Err("RandomnessGenerationError")

(* IL: the number in the left 32 bytes of the HMAC derive computes *)
DeriveIL(node, index) ==
    LET key_data ==
            IF index[2] >= 32768
            THEN <<0>> \o private_key_to_bytes(node.private_key) \o to_be_bytes(index)
            ELSE public_key_to_bytes(node.public_key) \o to_be_bytes(index)
    IN  FromBeBytes(SubSeq(sha_512_hmac(key_data, node.chain_code), 1, 32))

(* C14: derive, below the depth limit, returns the child with the private  *)
(* scalar (IL + parent scalar) mod n when IL < n and that sum is not 0,    *)
(* and otherwise returns an error value: no panic and no child.            *)
C14_DeriveScalar ==
    pc = "derived" /\ x_node.depth < 255 =>
        LET il  == DeriveIL(x_node, x_index)
            sum == (il + x_node.private_key) % CurveN
        IN  IF il < CurveN /\ sum # 0
            THEN Unwrap(x_child).ok /\ Unwrap(x_child).v.private_key = sum
            ELSE ~Unwrap(x_child).ok /\ "err" \in DOMAIN Unwrap(x_child)

(* C15: every ExtendedPrivateKey, however it was made (new, from_string,   *)
(* derive), has a chain code of exactly 32 bytes.                          *)
C15_ChainCodeLength ==
    /\ Len(x_node.chain_code) = 32
    /\ pc = "derived" /\ Unwrap(x_child).ok => Len(Unwrap(x_child).v.chain_code) = 32
    /\ pc = "read" /\ Unwrap(x_parsed).ok => Len(Unwrap(x_parsed).v.chain_code) = 32

-----------------------------------------------------------------------------
(* Script decoding *)

(* What the first bytes of an input declare: the bytes the length takes    *)
(* after the first byte (0 for a direct push), and the length, when the    *)
(* length field is whole.                                                  *)
DeclaresPush(bytes) ==
    Len(bytes) > 0 /\ (bytes[1] \in 1..75 \/ bytes[1] \in {76, 77, 78})

FieldWidth(bytes) == CASE bytes[1] = 76 -> 1 [] bytes[1] = 77 -> 2 [] bytes[1] = 78 -> 4 [] OTHER -> 0

FieldWhole(bytes) == Len(bytes) - 1 >= FieldWidth(bytes)

DeclaredLength(bytes) ==
    IF FieldWidth(bytes) = 0 THEN bytes[1]
    ELSE FromLeBytes(SubSeq(bytes, 2, 1 + FieldWidth(bytes)))

(* C16: from_bytes returns a decode error when the input ends before a     *)
(* declared length is satisfied, and a Push or PushData node it returns    *)
(* holds exactly the declared number of bytes, taken from the input.       *)
C16_TruncatedPushFails ==
    pc = "decoded" /\ DeclaresPush(dec_input) =>
        IF ~FieldWhole(dec_input)
              \/ Len(dec_input) - 1 - FieldWidth(dec_input) < DeclaredLength(dec_input)
        THEN ~Unwrap(dec_result).ok
        ELSE /\ Unwrap(dec_result).ok
             /\ Unwrap(dec_result).v.data =
                    SubSeq(dec_input, 2 + FieldWidth(dec_input),
                           1 + FieldWidth(dec_input) + DeclaredLength(dec_input))


(* ---- C17 ---- *)

(* the number of bytes a length needs: the index of its last non-zero byte *)
RECURSIVE BytesNeeded(_)
BytesNeeded(bs) ==
    IF bs = <<>> \/ bs[Len(bs)] # 0 THEN Len(bs) ELSE BytesNeeded(SubSeq(bs, 1, Len(bs) - 1))

(* the smallest push opcode whose length field holds `needed` bytes, if one does *)
SmallestPushOpcode(needed) ==
    IF needed <= 1 THEN Some("OP_PUSHDATA1")
    ELSE IF needed <= 2 THEN Some("OP_PUSHDATA2")
    ELSE IF needed <= 4 THEN Some("OP_PUSHDATA4")
    ELSE None

(* C17: get_pushdata_opcode(length) is None when length <= 0x4b and otherwise the
   smallest push opcode sufficient for length; the length field of the opcode it
   returns can always hold length. *)
C17_PushdataOpcode ==
    pushdata_opcode # None =>
        LET answer == Unwrap(pushdata_opcode)
            needed == BytesNeeded(LimbsLe(input_varint))
        IN  IF LeLimbs(input_varint, U64(75)) THEN answer = None
            ELSE /\ answer # None
                 /\ answer = SmallestPushOpcode(needed)
                 /\ length_width(Unwrap(answer)) >= needed

(* ---- C18 ---- *)

(* The accumulation n = (n << 7) | (byte & 0x7f), with +1 after each         *)
(* continued byte, over all of `bytes`, as a number of five limbs: wide     *)
(* enough for eleven bytes.                                                 *)
RECURSIVE Accumulate(_)
Accumulate(bytes) ==
    IF bytes = <<>> THEN <<0, 0, 0, 0, 0>>
    ELSE LET before  == Accumulate(SubSeq(bytes, 1, Len(bytes) - 1))
             byte    == bytes[Len(bytes)]
             shifted == Shl7(before)
             joined  == [shifted EXCEPT ![1] = shifted[1] + (byte % 128)]
         IN  IF byte >= 128 THEN AddOne(joined).sum ELSE joined

(* the bytes up to and with the first one without the continuation bit *)
RECURSIVE UpToTerminator(_)
UpToTerminator(bytes) ==
    IF bytes = <<>> THEN <<>>
    ELSE IF bytes[1] < 128 THEN <<bytes[1]>>
    ELSE <<bytes[1]>> \o UpToTerminator(Tail(bytes))

Terminated(bytes) == \E i \in 1..Len(bytes) : bytes[i] < 128

(* C18: read_var_int returns the exact value of the accumulation or an error;
   its accumulator never exceeds the maximum of u64 at any step, the +1 step
   included (no wrap-around, no overflow panic); and it returns an error when
   no terminating byte appears within max_size bytes. *)
C18_ReadVarIntOverflow ==
    pc = "read" /\ vu_result # None =>
        LET r     == Unwrap(vu_result)
            exact == Accumulate(SubSeq(vu_input, 1, r.pos))
        IN  /\ "panic" \notin DOMAIN r.res
            /\ r.res.ok => /\ Terminated(vu_input)
                           /\ r.res.v \o <<0>> = Accumulate(UpToTerminator(vu_input))
            /\ r.n \o <<0>> = exact
            /\ ~Terminated(SubSeq(vu_input, 1, Min(max_size, Len(vu_input)))) => ~r.res.ok

(* ---- C19 ---- *)

(* the reference table for the codes 1 to 20: 1, 10, ..., 10^9, 2, 20, ..., 2 * 10^9 *)
ReferenceTable ==
    [code \in 1..20 |-> IF code <= 10 THEN Pow(10, code - 1) ELSE 2 * Pow(10, code - 11)]

(* C19: decompress_value(0) = 0; on every other input of the range it is the
   inverse of the reference compression, decompress_value(compress(v)) = v for
   every amount v, and on the inputs 1 to 20 it equals the reference table. *)
C19_DecompressValue ==
    pc = "decompressed" =>
        LET output == Unwrap(dv_output) IN
        /\ dv_input = 0 => output = 0
        /\ dv_input \in 1..20 => output = ReferenceTable[dv_input]
        /\ \A v \in Amounts : compress(v) = dv_input => output = v
        /\ compress(output) = dv_input

(* a compressed amount above the table, with a peeled digit, was decompressed *)
C19_Witness ==
    /\ pc = "decompressed"
    /\ dv_input = compress(12345000) /\ dv_input > 20
    /\ dv_output = Some(12345000)

(* ---- C20 ---- *)

(* the digest of the message under the hash algorithm, as a scalar, fed in
   the given byte order *)
FedScalar(reversed) ==
    LET digest == get_hash_digest(vf_hash_algo, vf_message)
        fed    == IF reversed THEN [i \in 1..Len(digest) |-> digest[Len(digest) + 1 - i]]
                  ELSE digest
    IN  FromBeBytes(SubSeq(fed, 1, 2)) % CurveN

(* the signature equation for the key, the signature and a digest scalar z *)
SignatureHolds(z) ==
    LET w == InvMod(vf_signature.s, CurveN)
        point == PointAdd(ScalarMul((z * w) % CurveN, Generator),
                          ScalarMul((vf_signature.r * w) % CurveN, vf_public_key))
    IN  point # Infinity /\ point[1] % CurveN = vf_signature.r

(* C20: verify_digest checks the signature against the digest of the message
   under hash_algo, fed byte-reversed exactly when reverse_k is true and
   unreversed exactly when it is false; the flag changes nothing else. *)
C20_ReverseK ==
    pc = "verified" /\ vf_public_key[1] # OffCurveX =>
        (Unwrap(vf_result) = Ok(TRUE)) = SignatureHolds(FedScalar(vf_reverse_k))

(* reverse_k was true, the signature was accepted, and it holds for the
   reversed digest only *)
C20_Witness ==
    /\ pc = "verified" /\ vf_reverse_k
    /\ Unwrap(vf_result) = Ok(TRUE)
    /\ ~SignatureHolds(FedScalar(FALSE))

(* ---- C21 ---- *)

(* the key's coordinates satisfy the curve equation *)
KeyOnCurve ==
    (vf_public_key[2] * vf_public_key[2]) % FieldP
        = (vf_public_key[1] * vf_public_key[1] * vf_public_key[1] + 7) % FieldP

CallsMade == {vf_calls[i] : i \in 1..Len(vf_calls)}

(* C21: verify_digest has three outcomes: Ok(true) when the curve check accepts
   the signature, an error of the point decoding when the key bytes are not a
   point of the curve, an error of the verification when the curve check
   rejects; it never returns Ok(false), and a failure of the point decoding is
   reported before any digest is computed or verified. *)
C21_VerifyOutcomes ==
    pc = "verified" =>
        LET result   == Unwrap(vf_result)
            accepted == SignatureHolds(FedScalar(vf_reverse_k))
        IN  /\ result # Ok(FALSE)
            /\ result.ok => result = Ok(TRUE)
            /\ (result = Ok(TRUE)) = (KeyOnCurve /\ accepted)
            /\ ~KeyOnCurve =>
                 /\ ~result.ok
                 /\ vf_calls[Len(vf_calls)]
                        \in {"EncodedPoint::from_bytes", "VerifyingKey::from_encoded_point"}
                 /\ CallsMade \cap {"get_hash_digest", "reverse", "verify_digest"} = {}
            /\ KeyOnCurve /\ ~accepted =>
                 /\ ~result.ok
                 /\ vf_calls[Len(vf_calls)] = "verify_digest"

(* a key that is no point of the curve was refused *)
C21_Witness ==
    /\ pc = "verified"
    /\ ~KeyOnCurve
    /\ ~Unwrap(vf_result).ok
    /\ vf_calls # <<>>

(* ---- C22 ---- *)

(* what the call of a task returns when it runs alone *)
Alone(task) ==
    IF task.op = "derive" THEN derive_impl(par_node, task.index, TRUE)
    ELSE LET signature == sign_with_k(task.private_key, task.ephemeral_key, task.message,
                                      task.hash_algo)
         IN  IF ~signature.ok THEN signature
             ELSE private_key_from_signature_k(signature.v, public_key_of(task.private_key),
                                               task.ephemeral_key, task.message,
                                               task.hash_algo)

(* C22: in every interleaving of independent derive, sign_with_k and
   private_key_from_signature_k calls, each call returns the result it returns
   when run alone, and no step changes the node derived from or the arguments
   of a call. *)
C22_ParallelCalls ==
    /\ [](\A thread \in Threads :
              par_at[thread] = "done" => par_result[thread] = Some(Alone(par_tasks[thread])))
    /\ [][par_node' = par_node /\ par_tasks' = par_tasks]_vars

(* one thread has its child while another, deriving another index from the
   same node, is between the two halves of its call *)
C22_Witness ==
    /\ par_at[1] = "done" /\ par_at[2] = "keyed"
    /\ par_tasks[1].op = "derive" /\ par_tasks[2].op = "derive"
    /\ par_tasks[1].index # par_tasks[2].index
    /\ Unwrap(par_result[1]).ok

(* ---- C23 ---- *)

(* C23: no decoding operation panics on external input: ScriptBit::from_bytes,
   read_varint, VarIntUtil::read_var_int, VarIntUtil::read_bytes and
   ExtendedPrivateKey::from_string return a value or a typed error on every
   byte sequence, the empty and the truncated ones included. *)
C23_NoPanic ==
    pc = "decoded" /\ raw_result # None => "panic" \notin DOMAIN Unwrap(raw_result)

(* ---- C24 ---- *)

(* the bytes of the input from position `from` on, at most `count` of them *)
NextBytes(bytes, from, count) == SubSeq(bytes, from, Min(from + count - 1, Len(bytes)))

(* C24: from_bytes classifies by the leading byte b: 1..=75 gives Push holding
   the next b bytes; OP_PUSHDATA1/2/4 reads a length field of 1/2/4 bytes,
   little-endian, then that many bytes, giving PushData of that opcode; any
   other byte the enum assigns (0 included) gives the bare OpCode of that byte;
   an unassigned byte or an empty input gives a decode error. *)
C24_Classification ==
    pc = "decoded" =>
        LET result == Unwrap(dec_result) IN
        IF dec_input = <<>> THEN ~result.ok
        ELSE LET b == dec_input[1] IN
             IF b \in 1..75
             THEN /\ result.ok /\ result.v.type = "Push"
                  /\ Len(result.v.data) = b
                  /\ result.v.data = NextBytes(dec_input, 2, b)
             ELSE IF b \in {76, 77, 78}
             THEN FieldWhole(dec_input) =>
                     /\ result.ok /\ result.v.type = "PushData"
                     /\ AsU8(result.v.code) = b
                     /\ Len(result.v.data) = DeclaredLength(dec_input)
                     /\ result.v.data
                            = NextBytes(dec_input, 2 + FieldWidth(dec_input),
                                        DeclaredLength(dec_input))
             ELSE IF b \in EnumValues
             THEN result.ok /\ result.v.type = "OpCode" /\ AsU8(result.v.code) = b
             ELSE ~result.ok

(* ---- C25 ---- *)

RECURSIVE IfLayout(_), IfLayoutAll(_), CountIf(_), CountElse(_), LeafBytes(_)
(* the bytes the claim lays out for a node: for an If node its code byte,
   its pass nodes, OP_ELSE (0x67) and its fail nodes when fail is present,
   one OP_ENDIF (0x68); for any other node its own encoding *)
IfLayout(bit) ==
    IF bit.type = "If"
    THEN <<AsU8(bit.code)>> \o IfLayoutAll(bit.pass)
            \o (IF bit.fail # None THEN <<103>> \o IfLayoutAll(Unwrap(bit.fail)) ELSE <<>>)
            \o <<104>>
    ELSE to_vec(bit)
IfLayoutAll(bits) ==
    IF bits = <<>> THEN <<>> ELSE IfLayout(Head(bits)) \o IfLayoutAll(Tail(bits))

(* the If nodes, the present fail branches and the bytes of the other nodes
   in a sequence of trees *)
CountIf(bits) ==
    IF bits = <<>> THEN 0
    ELSE (IF Head(bits).type = "If"
          THEN 1 + CountIf(Head(bits).pass)
                 + (IF Head(bits).fail # None THEN CountIf(Unwrap(Head(bits).fail)) ELSE 0)
          ELSE 0) + CountIf(Tail(bits))
CountElse(bits) ==
    IF bits = <<>> THEN 0
    ELSE (IF Head(bits).type = "If"
          THEN CountElse(Head(bits).pass)
                 + (IF Head(bits).fail # None
                    THEN 1 + CountElse(Unwrap(Head(bits).fail)) ELSE 0)
          ELSE 0) + CountElse(Tail(bits))
LeafBytes(bits) ==
    IF bits = <<>> THEN 0
    ELSE (IF Head(bits).type = "If"
          THEN LeafBytes(Head(bits).pass)
                 + (IF Head(bits).fail # None THEN LeafBytes(Unwrap(Head(bits).fail)) ELSE 0)
          ELSE Len(to_vec(Head(bits)))) + LeafBytes(Tail(bits))

(* C25: to_vec of an If node is its code byte, the encodings of the pass nodes
   in order, then, only when fail is present, one OP_ELSE byte and the
   encodings of the fail nodes in order, then exactly one OP_ENDIF byte, at
   any nesting depth: beside the code and OP_ELSE bytes and the bytes of the
   other nodes, the encoding holds one byte per If node of the tree. *)
C25_IfEncoding ==
    pc # "start" =>
        /\ encoded = IfLayoutAll(script)
        /\ Len(encoded) - LeafBytes(script) - CountIf(script) - CountElse(script)
               = CountIf(script)

(* an If node with an If node in its pass branch and one in its fail branch
   has been encoded *)
C25_Witness ==
    /\ pc # "start"
    /\ Len(script) = 1 /\ script[1].type = "If"
    /\ script[1].pass # <<>> /\ script[1].pass[1].type = "If"
    /\ script[1].pass[1].fail = None
    /\ script[1].fail # None /\ Unwrap(script[1].fail) # <<>>
    /\ CountIf(script) = 3
    /\ encoded = IfLayoutAll(script)

(* ---- C26 ---- *)

(* C26: to_vec of PushData(op, bytes) is the opcode byte, a little-endian
   length field 1, 2 or 4 bytes wide for OP_PUSHDATA1, OP_PUSHDATA2,
   OP_PUSHDATA4, then the bytes; for every data length the field holds the
   number of data bytes that follow it. *)
C26_PushDataLength ==
    pc = "encoded" /\ pd_encoded # None =>
        LET bytes == Unwrap(pd_encoded)
            width == CASE pd_node.code = "OP_PUSHDATA1" -> 1
                       [] pd_node.code = "OP_PUSHDATA2" -> 2
                       [] pd_node.code = "OP_PUSHDATA4" -> 4
        IN  /\ Len(bytes) = 1 + width + Len(pd_node.data)
            /\ bytes[1] = CASE pd_node.code = "OP_PUSHDATA1" -> 76
                            [] pd_node.code = "OP_PUSHDATA2" -> 77
                            [] pd_node.code = "OP_PUSHDATA4" -> 78
            /\ FromLeBytes(SubSeq(bytes, 2, 1 + width)) = Len(bytes) - 1 - width
            /\ SubSeq(bytes, 2 + width, Len(bytes)) = pd_node.data

-----------------------------------------------------------------------------
(* The renderings of the nodes of a branch, in the mode of the call, the    *)
(* empty ones left out.                                                     *)
Tokens(bits) ==
    SelectSeq([i \in 1..Len(bits) |-> to_asm_string_impl(bits[i], asm_extended)],
              LAMBDA token : token # <<>>)

(* The tokens of a list with one space between neighbours. *)
RECURSIVE SpaceJoined(_)
SpaceJoined(tokens) ==
    IF Len(tokens) = 0 THEN <<>>
    ELSE IF Len(tokens) = 1 THEN tokens[1]
    ELSE SpaceJoined(SubSeq(tokens, 1, Len(tokens) - 1)) \o <<" ">> \o tokens[Len(tokens)]

(* C27: the ASM rendering of an If node, compact or extended, is the        *)
(* space-joined list of the mnemonic of its code, the renderings of the     *)
(* pass nodes in order, OP_ELSE and the renderings of the fail nodes in     *)
(* order only when fail is present, and OP_ENDIF; a node that renders as    *)
(* the empty string contributes no token, and nested If nodes are rendered  *)
(* in the same mode.                                                        *)
C27_IfRendering ==
    (pc = "rendered" /\ script[1].type = "If")
        => Unwrap(asm_rendered)
             = SpaceJoined(<<<<script[1].code>>>>
                               \o Tokens(script[1].pass)
                               \o (IF IsSome(script[1].fail)
                                   THEN <<<<"OP_ELSE">>>> \o Tokens(Unwrap(script[1].fail))
                                   ELSE <<>>)
                               \o <<<<"OP_ENDIF">>>>)

(* A compact rendering of an If whose pass branch holds a node that renders *)
(* as the empty string and whose fail branch holds a nested If.             *)
C27_Witness ==
    /\ pc = "rendered" /\ ~asm_extended
    /\ script[1] = IfBit("OP_IF", <<PushDataBit("OP_PUSHDATA1", <<>>), OpCodeBit("OP_DUP")>>,
                         Some(<<IfBit("OP_IF", <<>>, None)>>))
    /\ Unwrap(asm_rendered)
         = <<"OP_IF", " ", "OP_DUP", " ", "OP_ELSE", " ", "OP_IF", " ", "OP_ENDIF", " ",
             "OP_ENDIF">>

-----------------------------------------------------------------------------
(* index as 4 bytes, the most significant first *)
Be32(index) == <<index[2] \div 256, index[2] % 256, index[1] \div 256, index[1] % 256>>

(* index >= 0x80000000: the upper half of index is 0x8000 or more *)
Hardened(index) == index[2] >= 32768

(* C28: derive treats index as hardened exactly when index >= 0x80000000;   *)
(* the HMAC message of a hardened index is the byte 0, the 32 bytes of the  *)
(* parent's private key and index as 4 bytes big-endian, with no public key *)
(* in it, that of a normal index is the parent's compressed public key and  *)
(* index as 4 bytes big-endian; the HMAC key is the parent's chain code and *)
(* the child's chain code is the right 32 bytes of the HMAC output.         *)
C28_DeriveMessage ==
    pc = "derived" =>
        /\ x_key_data = IF Hardened(x_index)
                        THEN <<0>> \o private_key_to_bytes(x_node.private_key) \o Be32(x_index)
                        ELSE public_key_to_bytes(x_node.public_key) \o Be32(x_index)
        /\ Len(x_key_data) = 37
        /\ Hardened(x_index) => x_key_data[1] = 0 /\ Len(private_key_to_bytes(x_node.private_key)) = 32
        /\ ~Hardened(x_index) => x_key_data[1] \in {2, 3}
        /\ Unwrap(x_child).ok =>
               Unwrap(x_child).v.chain_code
                   = SubSeq(sha_512_hmac(x_key_data, x_node.chain_code), 33, 64)

(* A child was derived at the first hardened index, 0x80000000. *)
C28_Witness ==
    /\ pc = "derived" /\ Unwrap(x_child).ok
    /\ x_index = <<0, 32768>>
    /\ x_key_data[1] = 0 /\ SubSeq(x_key_data, 34, 37) = <<128, 0, 0, 0>>

-----------------------------------------------------------------------------
(* C29: after write_varint(n) on an empty Vec<u8>, read_varint on that      *)
(* Vec<u8> returns n, as read_varint on a Cursor over the bytes that the    *)
(* Cursor's write_varint(n) wrote does.                                     *)
C29_VecRoundTrip ==
    IsSome(vec_read) =>
        /\ Unwrap(vec_read) = Ok(input_varint)
        /\ IsSome(cursor_read) => Unwrap(vec_read) = Unwrap(cursor_read)

-----------------------------------------------------------------------------
(* The value read_var_int decodes from `bytes` when it succeeds and consumes *)
(* all of them, and None otherwise.                                         *)
DecodedInFull(bytes, overflow_checks) ==
    LET r == read_var_int(bytes, overflow_checks)
    IN  IF r.res.ok /\ r.pos = Len(bytes) THEN Some(r.res.v) ELSE None

(* C30: the base-128 decoding of read_var_int is canonical: two different   *)
(* byte sequences that each decode successfully and are each consumed in    *)
(* full never decode to the same value.                                     *)
C30_Canonical ==
    (pc = "read" /\ Unwrap(vu_result).res.ok /\ Unwrap(vu_result).pos = Len(vu_input)) =>
        \A other \in ReadInputs \ {vu_input}, overflow_checks \in BOOLEAN :
            DecodedInFull(other, overflow_checks) # Some(Unwrap(vu_result).res.v)

(* A three-byte input was decoded in full: 80 80 00 is 16512, the value     *)
(* after the last two-byte one, ff 7f.                                      *)
C30_Witness ==
    /\ pc = "read" /\ vu_input = <<128, 128, 0>>
    /\ Unwrap(vu_result).res = Ok(<<16512, 0, 0, 0>>)
    /\ Unwrap(vu_result).pos = 3
    /\ read_var_int(<<255, 127>>, TRUE).res = Ok(<<16511, 0, 0, 0>>)
====
